---- MODULE Spec2Model ----
(***************************************************************************)
(* Model of the land-temperature ETL pipeline (src/etl): the transform     *)
(* phase (classification, year validation) and the load phase              *)
(* (staging, dimensions, area hierarchy, facts, statistics) run against a  *)
(* warehouse of five tables.                                               *)
(*                                                                         *)
(* Representation.                                                         *)
(*  - A text value is a sequence of tokens: the token " " is one blank     *)
(*    character and any other token is a run of characters that neither    *)
(*    begins nor ends with a blank, so str.strip() is the removal of       *)
(*    leading and trailing " " tokens.                                     *)
(*  - A nullable value is <<>> (NULL / None / NaN) or <<v>>.               *)
(*  - A table with an identity column is the sequence of its rows in       *)
(*    insertion order together with the next value of its sequence.        *)
(*  - The fact table, filled by one set-oriented INSERT ... SELECT, is a   *)
(*    bag of rows.                                                         *)
(***************************************************************************)
EXTENDS Integers, Sequences, FiniteSets, Bags, TLC

\* ------------------------------------------------------------------ bounds
\* Longest input (number of long records handed to the transform phase).
MaxRecords == 3
\* Largest configured ETL_BATCH_SIZE tried.
MaxBatch == 2
\* Most rows of a frame handed to unpivot_years or validate_data alone.
MaxRows == 2
\* Most columns of a raw frame besides the identifier columns.
MaxCols == 2
\* Longest input of two runs started together.
MaxShared == 2

\* ------------------------------------------------------- nullable values
NULL == <<>>
Some(v) == <<v>>
Val(o) == o[1]

\* ------------------------------------------------------------------ text
Sp == " "
Txt(w) == <<w>>

RECURSIVE LStrip(_)
LStrip(s) == IF s # <<>> /\ Head(s) = Sp THEN LStrip(Tail(s)) ELSE s

RECURSIVE RStrip(_)
RStrip(s) ==
  IF s # <<>> /\ s[Len(s)] = Sp THEN RStrip(SubSeq(s, 1, Len(s) - 1)) ELSE s

\* str.strip()
Strip(s) == RStrip(LStrip(s))

\* --------------------------------------------------------- configuration
MIN_YEAR == 1880
MAX_YEAR == 2200
\* Degrees Celsius; the model keeps whole degrees.
MIN_TEMP_CHANGE == -20
MAX_TEMP_CHANGE == 20

AfricaSubregions ==
  {Txt("Eastern Africa"), Txt("Middle Africa"), Txt("Northern Africa"),
   Txt("Southern Africa"), Txt("Western Africa")}
AmericasSubregions ==
  {Txt("Caribbean"), Txt("Central America"), Txt("South America"),
   Txt("Northern America")}
AsiaSubregions ==
  {Txt("Central Asia"), Txt("Eastern Asia"), Txt("South-eastern Asia"),
   Txt("Southern Asia"), Txt("Western Asia")}
EuropeSubregions ==
  {Txt("Eastern Europe"), Txt("Northern Europe"), Txt("Southern Europe"),
   Txt("Western Europe")}
OceaniaSubregions ==
  {Txt("Australia and New Zealand"), Txt("Melanesia"), Txt("Micronesia"),
   Txt("Polynesia")}

\* config.AREA_TYPE_MAPPING, in the iteration order of the dict.
AREA_TYPE_MAPPING ==
  << <<"world", {Txt("World")}>>,
     <<"continent",
       {Txt("Africa"), Txt("Americas"), Txt("Asia"), Txt("Europe"),
        Txt("Oceania")}>>,
     <<"subregion",
       {Txt("Eastern Africa"), Txt("Middle Africa"), Txt("Northern Africa"),
        Txt("Southern Africa"), Txt("Western Africa"),
        Txt("Caribbean"), Txt("Central America"), Txt("South America"),
        Txt("Northern America"),
        Txt("Central Asia"), Txt("Eastern Asia"), Txt("South-eastern Asia"),
        Txt("Southern Asia"), Txt("Western Asia"),
        Txt("Eastern Europe"), Txt("Northern Europe"),
        Txt("Southern Europe"), Txt("Western Europe"),
        Txt("Australia and New Zealand"), Txt("Melanesia"),
        Txt("Micronesia"), Txt("Polynesia")}>> >>

\* A table that lacks the Oceania entries.
SubregionTableWithoutOceania(name) ==
  CASE name \in AfricaSubregions -> Some(Txt("Africa"))
    [] name \in AmericasSubregions -> Some(Txt("Americas"))
    [] name \in AsiaSubregions -> Some(Txt("Asia"))
    [] name \in EuropeSubregions -> Some(Txt("Europe"))
    [] OTHER -> NULL

\* config.SUBREGION_TO_CONTINENT.get(name): NULL for a missing key.
SUBREGION_TO_CONTINENT(name) ==
  CASE name \in AfricaSubregions -> Some(Txt("Africa"))
    [] name \in AmericasSubregions -> Some(Txt("Americas"))
    [] name \in AsiaSubregions -> Some(Txt("Asia"))
    [] name \in EuropeSubregions -> Some(Txt("Europe"))
    [] name \in OceaniaSubregions -> Some(Txt("Oceania"))
    [] OTHER -> NULL

MonthNames ==
  <<Txt("January"), Txt("February"), Txt("March"), Txt("April"), Txt("May"),
    Txt("June"), Txt("July"), Txt("August"), Txt("September"),
    Txt("October"), Txt("November"), Txt("December")>>

\* The four spellings with plain hyphens, then the four FAO spellings, whose
\* en dashes (U+2013) are written "--" here.
SeasonNames ==
  <<Txt("December-January-February"), Txt("March-April-May"),
    Txt("June-July-August"), Txt("September-October-November"),
    Txt("Dec--Jan--Feb"), Txt("Mar--Apr--May"), Txt("Jun--Jul--Aug"),
    Txt("Sep--Oct--Nov")>>

Range(s) == {s[k] : k \in DOMAIN s}

\* config.PERIOD_TYPE_MAPPING, in the iteration order of the dict.
PERIOD_TYPE_MAPPING ==
  << <<"month", Range(MonthNames)>>,
     <<"season", Range(SeasonNames)>>,
     <<"annual", {Txt("Meteorological year")}>> >>

\* dict.get(key): the value of the first item with that key, NULL without
\* one (the keys of a dict literal are distinct here).
DictGet(items, key) ==
  IF \E k \in DOMAIN items : items[k][1] = key
    THEN Some(items[CHOOSE k \in DOMAIN items : items[k][1] = key][2])
    ELSE NULL

\* The items of config.MONTH_TO_NUMBER.
MonthNumbers ==
  << <<Txt("January"), 1>>, <<Txt("February"), 2>>, <<Txt("March"), 3>>,
     <<Txt("April"), 4>>, <<Txt("May"), 5>>, <<Txt("June"), 6>>,
     <<Txt("July"), 7>>, <<Txt("August"), 8>>, <<Txt("September"), 9>>,
     <<Txt("October"), 10>>, <<Txt("November"), 11>>,
     <<Txt("December"), 12>> >>

\* config.MONTH_TO_NUMBER.get(name)
MONTH_TO_NUMBER(name) == DictGet(MonthNumbers, name)

\* The items of config.SEASON_TO_QUARTER.
SeasonQuarters ==
  << <<Txt("December-January-February"), 1>>, <<Txt("March-April-May"), 2>>,
     <<Txt("June-July-August"), 3>>,
     <<Txt("September-October-November"), 4>>,
     <<Txt("Dec--Jan--Feb"), 1>>, <<Txt("Mar--Apr--May"), 2>>,
     <<Txt("Jun--Jul--Aug"), 3>>, <<Txt("Sep--Oct--Nov"), 4>> >>

\* A table that numbers its eight keys in the order they are written.
SeasonPositions(name) ==
  IF \E k \in DOMAIN SeasonQuarters : SeasonQuarters[k][1] = name
    THEN Some(CHOOSE k \in DOMAIN SeasonQuarters : SeasonQuarters[k][1] = name)
    ELSE NULL

\* config.SEASON_TO_QUARTER.get(name)
SEASON_TO_QUARTER(name) == DictGet(SeasonQuarters, name)

\* ----------------------------------------------------------- classifiers
\* The loop "for type, names in mapping.items(): if name in names: return
\* type", from entry k on; fallthrough is the value after the loop.
RECURSIVE FirstMatch(_, _, _, _)
FirstMatch(mapping, name, k, fallthrough) ==
  IF k > Len(mapping) THEN fallthrough
  ELSE IF name \in mapping[k][2] THEN mapping[k][1]
  ELSE FirstMatch(mapping, name, k + 1, fallthrough)

\* A classification of the name as given, blanks included.
ClassifyAreaAsGiven(area_name) ==
  FirstMatch(AREA_TYPE_MAPPING, area_name, 1, "country")

classify_area(area_name) ==
  FirstMatch(AREA_TYPE_MAPPING, Strip(area_name), 1, "country")

get_parent_area(area_name, area_type) ==
  CASE area_type = "world" -> NULL
    [] area_type = "continent" -> Some(Txt("World"))
    [] area_type = "subregion" -> SUBREGION_TO_CONTINENT(area_name)
    [] OTHER -> NULL

\* A classification that falls back to a type, as classify_area does,
\* instead of raising.
ClassifyPeriodDefaultsToAnnual(period_name) ==
  FirstMatch(PERIOD_TYPE_MAPPING, Strip(period_name), 1, "annual")

\* "error" stands for the ValueError raised on an unknown period name.
classify_period(period_name) ==
  FirstMatch(PERIOD_TYPE_MAPPING, Strip(period_name), 1, "error")

get_month_number(period_name) == MONTH_TO_NUMBER(period_name)

get_quarter(period_name) == SEASON_TO_QUARTER(period_name)

get_period_attributes(period_name) ==
  [period_type |-> classify_period(period_name),
   month_number |-> get_month_number(period_name),
   quarter |-> get_quarter(period_name)]

\* ------------------------------------------------------------- transform
\* A raw frame (the CSV as read) is [columns, rows]: columns are the labels,
\* in file order, of the columns other than the eight identifier columns,
\* each label a sequence of characters; a row is [ids, cells], ids giving
\* the value of every identifier column and cells the values under columns.
id_cols ==
  {"Area Code", "Area Code (M49)", "Area", "Months Code", "Months",
   "Element Code", "Element", "Unit"}

\* col.startswith("Y")
StartsWithY(label) == label # <<>> /\ label[1] = "Y"

\* The positions in frame.columns of year_cols, in order.
RECURSIVE YearCols(_, _)
YearCols(columns, k) ==
  IF k > Len(columns) THEN <<>>
  ELSE IF StartsWithY(columns[k]) THEN <<k>> \o YearCols(columns, k + 1)
  ELSE YearCols(columns, k + 1)

\* str.replace("Y", ""): every "Y" is removed.
RECURSIVE ReplaceY(_)
ReplaceY(label) ==
  IF label = <<>> THEN <<>>
  ELSE IF Head(label) = "Y" THEN ReplaceY(Tail(label))
  ELSE <<Head(label)>> \o ReplaceY(Tail(label))

Digits == <<"0", "1", "2", "3", "4", "5", "6", "7", "8", "9">>

\* Whether int() accepts the text: a non-empty run of decimal digits.
IsInt(chars) ==
  chars # <<>> /\ \A k \in DOMAIN chars : \E d \in DOMAIN Digits : Digits[d] = chars[k]

DigitValue(c) == (CHOOSE d \in DOMAIN Digits : Digits[d] = c) - 1

\* int() of a run of decimal digits.
RECURSIVE ToInt(_)
ToInt(chars) ==
  IF chars = <<>> THEN 0
  ELSE (ToInt(SubSeq(chars, 1, Len(chars) - 1)) * 10) + DigitValue(chars[Len(chars)])

\* The long record pd.melt makes of a row and the year column at position
\* k, after the year is read off the label and the columns are renamed.
MeltedRow(frame, row, k) ==
  [area_code |-> row.ids["Area Code"], m49_code |-> row.ids["Area Code (M49)"],
   area_name |-> row.ids["Area"], months_code |-> row.ids["Months Code"],
   period_name |-> row.ids["Months"], element_code |-> row.ids["Element Code"],
   element_name |-> row.ids["Element"], unit |-> row.ids["Unit"],
   year |-> ToInt(ReplaceY(frame.columns[k])), value |-> row.cells[k]]

\* pd.melt stacks the value columns one after the other: all rows for the
\* first year column, then all rows for the second, and so on.
RECURSIVE Melt(_, _)
\* A melt of the first year column alone.
MeltFirstColumnOnly(frame, cols) ==
  IF cols = <<>> THEN <<>>
  ELSE [r \in DOMAIN frame.rows |-> MeltedRow(frame, frame.rows[r], Head(cols))]

Melt(frame, cols) ==
  IF cols = <<>> THEN <<>>
  ELSE [r \in DOMAIN frame.rows |-> MeltedRow(frame, frame.rows[r], Head(cols))]
         \o Melt(frame, Tail(cols))

\* unpivot_years: err tells that it raised, which it does with IndexError
\* from year_cols[0] in the log line when no column starts with "Y", and
\* with ValueError from astype(int) when what is left of a label of a
\* melted row is not an integer; rows is the frame it returns otherwise.
unpivot_years(frame) ==
  LET year_cols == YearCols(frame.columns, 1)
  IN IF year_cols = <<>> THEN [err |-> TRUE, rows |-> <<>>]
     ELSE IF /\ frame.rows # <<>>
             /\ \E k \in Range(year_cols) : ~IsInt(ReplaceY(frame.columns[k]))
       THEN [err |-> TRUE, rows |-> <<>>]
     ELSE [err |-> FALSE, rows |-> Melt(frame, year_cols)]

add_area_classification(rows) ==
  [k \in DOMAIN rows |->
     [area_code |-> rows[k].area_code, m49_code |-> rows[k].m49_code,
      area_name |-> rows[k].area_name, months_code |-> rows[k].months_code,
      period_name |-> rows[k].period_name,
      element_code |-> rows[k].element_code,
      element_name |-> rows[k].element_name, unit |-> rows[k].unit,
      year |-> rows[k].year, value |-> rows[k].value,
      area_type |-> classify_area(rows[k].area_name)]]

\* Whether get_period_attributes raises on some row.
PeriodClassificationFails(rows) ==
  \E k \in DOMAIN rows : classify_period(rows[k].period_name) = "error"

add_period_classification(rows) ==
  [k \in DOMAIN rows |->
     [area_code |-> rows[k].area_code, m49_code |-> rows[k].m49_code,
      area_name |-> rows[k].area_name, months_code |-> rows[k].months_code,
      period_name |-> rows[k].period_name,
      element_code |-> rows[k].element_code,
      element_name |-> rows[k].element_name, unit |-> rows[k].unit,
      year |-> rows[k].year, value |-> rows[k].value,
      area_type |-> rows[k].area_type,
      period_type |-> get_period_attributes(rows[k].period_name).period_type,
      month_number |-> get_period_attributes(rows[k].period_name).month_number,
      quarter |-> get_period_attributes(rows[k].period_name).quarter]]

\* The year filter of validate_data: rows outside [MIN_YEAR, MAX_YEAR] are
\* removed, the others keep their order.
RECURSIVE validate_data(_)
\* A filter whose bounds are exclusive.
YearFilterExclusive(rows) ==
  SelectSeq(rows, LAMBDA r : r.year > MIN_YEAR /\ r.year < MAX_YEAR)

\* A filter that removes the rows it should only count and flag as well.
DropsFlaggedRows(rows) ==
  SelectSeq(rows,
            LAMBDA r : /\ r.year >= MIN_YEAR /\ r.year <= MAX_YEAR
                       /\ r.value # NULL
                       /\ ~(/\ r.element_name = Txt("Temperature change")
                            /\ \/ Val(r.value) < MIN_TEMP_CHANGE
                               \/ Val(r.value) > MAX_TEMP_CHANGE))

validate_data(rows) ==
  IF rows = <<>> THEN <<>>
  ELSE IF Head(rows).year >= MIN_YEAR /\ Head(rows).year <= MAX_YEAR
    THEN <<Head(rows)>> \o validate_data(Tail(rows))
  ELSE validate_data(Tail(rows))

\* extreme_temps: the rows with a value, of element "Temperature change",
\* whose value is outside [MIN_TEMP_CHANGE, MAX_TEMP_CHANGE].
ExtremeTemps(rows) ==
  SelectSeq(rows,
            LAMBDA r : /\ r.value # NULL
                       /\ r.element_name = Txt("Temperature change")
                       /\ \/ Val(r.value) < MIN_TEMP_CHANGE
                          \/ Val(r.value) > MAX_TEMP_CHANGE)

\* What validate_data logs: the number of null values of its input, the
\* number of rows it removes, and the number of retained rows it warns
\* about. The percentage of nulls is numpy's division, which gives nan for
\* an empty frame and raises nothing.
ValidationLog(rows) ==
  [nulls |-> Len(SelectSeq(rows, LAMBDA r : r.value = NULL)),
   removed |-> Len(rows) - Len(validate_data(rows)),
   extreme |-> Len(ExtremeTemps(validate_data(rows)))]

\* transform_data after unpivot_years, when no period name is unknown.
transform_data(rows) ==
  validate_data(add_period_classification(add_area_classification(rows)))

\* -------------------------------------------------------------- warehouse
Min(a, b) == IF a < b THEN a ELSE b

\* DataFrame.drop_duplicates(): the first occurrence of every row, in order.
RECURSIVE drop_duplicates(_)
\* A frame from which no duplicate is removed.
KeepDuplicates(rows) == rows

drop_duplicates(rows) ==
  IF rows = <<>> THEN <<>>
  ELSE LET init == drop_duplicates(SubSeq(rows, 1, Len(rows) - 1))
           last == rows[Len(rows)]
       IN IF last \in Range(init) THEN init ELSE Append(init, last)

\* df[staging_cols] of load_to_staging.
StagingRows(rows) ==
  [k \in DOMAIN rows |->
     [area_code |-> rows[k].area_code, m49_code |-> rows[k].m49_code,
      area_name |-> rows[k].area_name, months_code |-> rows[k].months_code,
      period_name |-> rows[k].period_name,
      element_code |-> rows[k].element_code,
      element_name |-> rows[k].element_name, unit |-> rows[k].unit,
      year |-> rows[k].year, value |-> rows[k].value]]

\* The area frame taken from all rows but the last.
AreaFrameSkipsLast(rows) ==
  drop_duplicates(
    [k \in 1 .. (Len(rows) - 1) |->
       [area_code |-> rows[k].area_code, m49_code |-> rows[k].m49_code,
        area_name |-> rows[k].area_name, area_type |-> rows[k].area_type]])

\* df[["area_code", "m49_code", "area_name", "area_type"]].drop_duplicates()
AreaFrame(rows) ==
  drop_duplicates(
    [k \in DOMAIN rows |->
       [area_code |-> rows[k].area_code, m49_code |-> rows[k].m49_code,
        area_name |-> rows[k].area_name, area_type |-> rows[k].area_type]])

\* df[[months_code, period_name, period_type, month_number, quarter]]
\*   .drop_duplicates().rename(months_code -> period_code)
PeriodFrame(rows) ==
  drop_duplicates(
    [k \in DOMAIN rows |->
       [period_code |-> rows[k].months_code,
        period_name |-> rows[k].period_name,
        period_type |-> rows[k].period_type,
        month_number |-> rows[k].month_number, quarter |-> rows[k].quarter]])

\* df[["element_code", "element_name", "unit"]].drop_duplicates().rename(...)
MetricFrame(rows) ==
  drop_duplicates(
    [k \in DOMAIN rows |->
       [metric_code |-> rows[k].element_code,
        metric_name |-> rows[k].element_name, unit |-> rows[k].unit]])

\* A TRUNCATE that removes nothing.
TruncateKeepsRows(rows) == rows

\* TRUNCATE TABLE t: the rows left in t.
TruncateTable(rows) == <<>>

\* TRUNCATE ... RESTART IDENTITY: the next value of the identity sequence.
RestartIdentity(next) == 1

\* frame.to_sql("dim_area", if_exists="append"): every row gets the next
\* value of the identity column; parent_area_key, absent from the frame, is
\* NULL.
InsertAreas(table, frame, next) ==
  table \o
  [k \in DOMAIN frame |->
     [area_key |-> next + k - 1, area_code |-> frame[k].area_code,
      m49_code |-> frame[k].m49_code, area_name |-> frame[k].area_name,
      area_type |-> frame[k].area_type, parent_area_key |-> NULL]]

InsertPeriods(table, frame, next) ==
  table \o
  [k \in DOMAIN frame |->
     [period_key |-> next + k - 1, period_code |-> frame[k].period_code,
      period_name |-> frame[k].period_name,
      period_type |-> frame[k].period_type,
      month_number |-> frame[k].month_number, quarter |-> frame[k].quarter]]

InsertMetrics(table, frame, next) ==
  table \o
  [k \in DOMAIN frame |->
     [metric_key |-> next + k - 1, metric_code |-> frame[k].metric_code,
      metric_name |-> frame[k].metric_name, unit |-> frame[k].unit]]

\* A scalar subquery "(SELECT area_key FROM dim_area WHERE ...)" over the rows
\* at positions ks: NULL for no row, the key for one row. More than one row
\* is an error of the statement (see TooManyRows).
ScalarSubquery(table, ks) ==
  IF ks = {} THEN NULL ELSE Some(table[CHOOSE k \in ks : TRUE].area_key)

TooManyRows(ks) == Cardinality(ks) > 1

RowsOfType(table, type) == {k \in DOMAIN table : table[k].area_type = type}

\* The continent UPDATE without its WHERE clause: every row is updated.
UpdateContinentsNoWhere(table) ==
  [k \in DOMAIN table |->
     [table[k] EXCEPT
        !.parent_area_key = ScalarSubquery(table, RowsOfType(table, "world"))]]

\* The continent UPDATE with the subquery selecting the first row of the
\* table instead of the world row.
UpdateContinentsFirstRow(table) ==
  [k \in DOMAIN table |->
     IF table[k].area_type = "continent"
       THEN [table[k] EXCEPT !.parent_area_key = Some(table[1].area_key)]
       ELSE table[k]]

\* UPDATE dim_area SET parent_area_key = (SELECT area_key ... 'world')
\*   WHERE area_type = 'continent'.  The subquery is evaluated when a row is
\* to be updated.
UpdateContinents(table) ==
  [k \in DOMAIN table |->
     IF table[k].area_type = "continent"
       THEN [table[k] EXCEPT
               !.parent_area_key =
                 ScalarSubquery(table, RowsOfType(table, "world"))]
       ELSE table[k]]

UpdateContinentsFails(table) ==
  /\ RowsOfType(table, "continent") # {}
  /\ TooManyRows(RowsOfType(table, "world"))

\* The positions of the continent rows named parent_name.
ContinentsNamed(table, parent_name) ==
  {k \in RowsOfType(table, "continent") : table[k].area_name = parent_name}

\* The loop over the fetched subregions (area_key, area_name), from entry n
\* on.  The result is [err, rows]: err when a statement failed.
RECURSIVE UpdateSubregions(_, _, _)
UpdateSubregions(table, subregions, n) ==
  IF n > Len(subregions) THEN [err |-> FALSE, rows |-> table]
  ELSE
    LET area_key == subregions[n][1]
        parent_name ==
          get_parent_area(subregions[n][2], "subregion")
    IN IF parent_name = NULL
         THEN UpdateSubregions(table, subregions, n + 1)
       ELSE IF TooManyRows(ContinentsNamed(table, Val(parent_name)))
         THEN [err |-> TRUE, rows |-> table]
       ELSE
         UpdateSubregions(
           [k \in DOMAIN table |->
              IF table[k].area_key = area_key
                THEN [table[k] EXCEPT
                        !.parent_area_key =
                          ScalarSubquery(
                            table, ContinentsNamed(table, Val(parent_name)))]
                ELSE table[k]],
           subregions, n + 1)

\* SELECT area_key, area_name FROM dim_area WHERE area_type = 'subregion'
RECURSIVE FetchSubregions(_)
FetchSubregions(table) ==
  IF table = <<>> THEN <<>>
  ELSE IF Head(table).area_type = "subregion"
    THEN << <<Head(table).area_key, Head(table).area_name>> >>
           \o FetchSubregions(Tail(table))
  ELSE FetchSubregions(Tail(table))

\* The statements of update_area_hierarchy up to its commit: [err, rows].
update_area_hierarchy(table) ==
  IF UpdateContinentsFails(table) THEN [err |-> TRUE, rows |-> table]
  ELSE LET t1 == UpdateContinents(table)
       IN UpdateSubregions(t1, FetchSubregions(t1), 1)

\* SQL equality of two nullable values: never true of a NULL.
SqlEq(a, b) == a # NULL /\ b # NULL /\ a = b

\* A join condition under which two NULL codes match.
AreaJoinNullMatches(s, a) == s.m49_code = a.m49_code

\* ON s.m49_code = a.m49_code / s.months_code = p.period_code /
\* s.element_code = m.metric_code
AreaJoin(s, a) == SqlEq(s.m49_code, a.m49_code)
PeriodJoin(s, p) == SqlEq(s.months_code, p.period_code)
MetricJoin(s, m) == SqlEq(s.element_code, m.metric_code)

\* The rows the three inner joins produce for one staged row.
FactsOfRow(s, areas, periods, metrics) ==
  LET hits ==
        {t \in (DOMAIN areas) \X (DOMAIN periods) \X (DOMAIN metrics) :
           /\ AreaJoin(s, areas[t[1]])
           /\ PeriodJoin(s, periods[t[2]])
           /\ MetricJoin(s, metrics[t[3]])}
      Row(t) ==
        [area_key |-> areas[t[1]].area_key,
         period_key |-> periods[t[2]].period_key,
         metric_key |-> metrics[t[3]].metric_key,
         year |-> s.year, value |-> s.value]
      rows == {Row(t) : t \in hits}
  IN [f \in rows |-> Cardinality({t \in hits : Row(t) = f})]

\* INSERT INTO fact_temperature ... SELECT ... FROM staging s INNER JOIN ...
RECURSIVE FactJoin(_, _, _, _)
FactJoin(staged, areas, periods, metrics) ==
  IF staged = <<>> THEN EmptyBag
  ELSE FactsOfRow(Head(staged), areas, periods, metrics)
         (+) FactJoin(Tail(staged), areas, periods, metrics)

\* get_load_statistics: SELECT COUNT(*) of the five tables.
LoadStatistics(stg, areas, periods, metrics, facts) ==
  [Staging |-> Len(stg), Areas |-> Len(areas), TimePeriods |-> Len(periods),
   Metrics |-> Len(metrics), Facts |-> BagCardinality(facts)]

\* ------------------------------------------------------------------ input
\* A row of the result of unpivot_years: area code, M49 code, area name,
\* months code, period name, element code, element name, year and value.
LongRecord(ac, m49, an, mc, pn, ec, en, yr, v) ==
  [area_code |-> ac, m49_code |-> m49, area_name |-> an, months_code |-> mc,
   period_name |-> pn, element_code |-> ec, element_name |-> en,
   unit |-> Txt("C"), year |-> yr, value |-> v]

TempChange == Txt("Temperature change")
StdDev == Txt("Standard Deviation")

\* The long records an input is drawn from: the three levels of the area
\* hierarchy, a subregion whose name carries a trailing blank, a country
\* without M49 code, a second row classified as world and an unknown period
\* name.
Universe ==
  {LongRecord(5000, Some("001"), Txt("World"), Some(7001), Txt("January"),
              Some(7271), TempChange, 2000, Some(1)),
   LongRecord(5100, Some("002"), Txt("Africa"), Some(7001), Txt("January"),
              Some(7271), TempChange, 2000, Some(50)),
   LongRecord(5101, Some("014"), Txt("Eastern Africa"), Some(7016),
              Txt("Dec--Jan--Feb"), Some(7271), TempChange, 2001, NULL),
   LongRecord(5101, Some("014"), <<"Eastern Africa", Sp>>, Some(7020),
              Txt("Meteorological year"), Some(6078), StdDev, 2000, Some(2)),
   LongRecord(9, NULL, Txt("Atlantis"), Some(7020),
              Txt("Meteorological year"), Some(7271), TempChange, 2000,
              Some(3)),
   LongRecord(5001, Some("999"), <<Sp, "World">>, Some(7001), Txt("January"),
              Some(7271), TempChange, 2001, Some(1)),
   LongRecord(5100, Some("002"), Txt("Africa"), Some(7099), Txt("Foo"),
              Some(7271), TempChange, 2000, Some(1))}

\* All sequences over S of length at most n.
RECURSIVE SeqsUpTo(_, _)
SeqsUpTo(S, n) ==
  IF n = 0 THEN {<<>>}
  ELSE LET shorter == SeqsUpTo(S, n - 1)
       IN shorter \cup {Append(q, x) : q \in shorter, x \in S}

Inputs == SeqsUpTo(Universe, MaxRecords)

\* The values ETL_BATCH_SIZE is given: the positive sizes and 0, which
\* int(os.getenv(...)) accepts as well.
BatchSizes == 0 .. MaxBatch

\* A warehouse a completed run on another input (Asia and Central Asia,
\* January 1990 and 1991) has left behind.
LegacyInput ==
  <<LongRecord(5300, Some("142"), Txt("Asia"), Some(7001), Txt("January"),
               Some(7271), TempChange, 1990, Some(1)),
    LongRecord(5301, Some("143"), Txt("Central Asia"), Some(7001),
               Txt("January"), Some(7271), TempChange, 1991, Some(2))>>

LegacyWarehouse ==
  LET d == transform_data(LegacyInput)
      areas == update_area_hierarchy(InsertAreas(<<>>, AreaFrame(d), 1)).rows
      periods == InsertPeriods(<<>>, PeriodFrame(d), 1)
      metrics == InsertMetrics(<<>>, MetricFrame(d), 1)
  IN [staging |-> StagingRows(d), dim_area |-> areas,
      dim_time_period |-> periods, dim_metric |-> metrics,
      fact_temperature |-> FactJoin(StagingRows(d), areas, periods, metrics),
      seq |-> [area |-> Len(areas) + 1, period |-> Len(periods) + 1,
               metric |-> Len(metrics) + 1]]

EmptyWarehouse ==
  [staging |-> <<>>, dim_area |-> <<>>, dim_time_period |-> <<>>,
   dim_metric |-> <<>>, fact_temperature |-> EmptyBag,
   seq |-> [area |-> 1, period |-> 1, metric |-> 1]]

\* ------------------------------------------------------------------ state
VARIABLES
  raw,              \* the long records of the input files (the same in every run)
  BATCH_SIZE,       \* config.BATCH_SIZE, from the environment of the runs
  df,               \* transformed_data of the current run
  pc,               \* the call run_pipeline / load_data makes next
  steps,            \* the steps the current run has begun, in order
  exit_code,        \* NULL while the run is under way, then run_pipeline's result
  stats,            \* NULL, or the row counts load_data returned
  prev_stats,       \* stats of the run before
  staging,          \* staging.raw_temperature
  dim_area,         \* core.dim_area
  dim_time_period,  \* core.dim_time_period
  dim_metric,       \* core.dim_metric
  fact_temperature, \* core.fact_temperature
  seq,              \* next values of the identity columns of the dimensions
  i,                \* load_to_staging: the loop variable
  batch_size,       \* load_to_staging: the local batch_size
  refresh_calls,    \* calls of analytics.refresh_all_views() in this run
  fn,               \* Calls: the function being called, "none" between calls
  arg,              \* Calls: its arguments, each in the field of its kind
  res,              \* Calls: what it returned, in the field of its kind
  runs,             \* Concurrent: pc, i, batch_size and stats of each run
  serial            \* Concurrent: no run has yet taken a step while the
                    \* other was under way

config == <<raw, BATCH_SIZE>>
\* The variables of the specifications Calls and Concurrent, which no step
\* of Spec touches.
aside == <<fn, arg, res, runs, serial>>
\* The variables of a run of Spec.
run == <<df, pc, steps, exit_code, stats, prev_stats, i, batch_size, refresh_calls>>
tables == <<staging, dim_area, dim_time_period, dim_metric, fact_temperature, seq>>
locals == <<i, batch_size>>
vars ==
  <<raw, BATCH_SIZE, df, pc, steps, exit_code, stats, prev_stats, staging, dim_area,
    dim_time_period, dim_metric, fact_temperature, seq, i, batch_size,
    refresh_calls, fn, arg, res, runs, serial>>

\* No argument: the fields of arg between calls. A call fills in name (of
\* an area or a period), name and area_type, rows (long records) or frame
\* (a raw frame).
NoArg ==
  [name |-> <<>>, area_type |-> "", rows |-> <<>>,
   frame |-> [columns |-> <<>>, rows |-> <<>>]]

\* No result: the fields of res between calls. A call fills in type (of
\* classify_area and classify_period), parent (get_parent_area), attrs
\* (get_period_attributes), unpivoted (unpivot_years) or df and log
\* (validate_data).
NoRes ==
  [type |-> "", parent |-> NULL,
   attrs |-> [period_type |-> "", month_number |-> NULL, quarter |-> NULL],
   unpivoted |-> [err |-> FALSE, rows |-> <<>>], df |-> <<>>,
   log |-> [nulls |-> 0, removed |-> 0, extreme |-> 0]]

\* The values the variables of Calls and Concurrent have under Spec.
AsideIdle ==
  fn = "none" /\ arg = NoArg /\ res = NoRes /\ runs = <<>> /\ serial = TRUE

\* The values the variables of a run have before it begins.
RunIdle ==
  /\ df = <<>>
  /\ pc = "extract_all"
  /\ steps = <<>>
  /\ exit_code = NULL
  /\ stats = NULL
  /\ prev_stats = NULL
  /\ i = 0
  /\ batch_size = 0
  /\ refresh_calls = 0

Init ==
  /\ raw \in Inputs
  /\ BATCH_SIZE \in BatchSizes
  /\ \E w \in {EmptyWarehouse, LegacyWarehouse} :
       /\ staging = w.staging
       /\ dim_area = w.dim_area
       /\ dim_time_period = w.dim_time_period
       /\ dim_metric = w.dim_metric
       /\ fact_temperature = w.fact_temperature
       /\ seq = w.seq
  /\ RunIdle
  /\ AsideIdle

\* ---------------------------------------------------------------- control
\* The step begins: it is logged.
Begin(step) == steps' = Append(steps, step)

\* The call order with update_area_hierarchy called by load_dimensions after
\* the three dimension loads instead of by load_dim_area.
SuccessorHierarchyLast(call) ==
  CASE call = "extract_all" -> "transform_data"
    [] call = "transform_data" -> "test_connection"
    [] call = "test_connection" -> "truncate_staging"
    [] call = "truncate_staging" -> "load_to_staging"
    [] call = "load_to_staging" -> "load_dim_area"
    [] call = "load_dim_area" -> "load_dim_time_period"
    [] call = "load_dim_time_period" -> "load_dim_metric"
    [] call = "load_dim_metric" -> "update_area_hierarchy"
    [] call = "update_area_hierarchy" -> "load_facts"
    [] call = "load_facts" -> "refresh_analytics_views"
    [] call = "refresh_analytics_views" -> "get_load_statistics"

\* The call order with the staging table truncated before the connection is
\* tested.
SuccessorTruncateBeforeConnect(call) ==
  CASE call = "extract_all" -> "transform_data"
    [] call = "transform_data" -> "truncate_staging"
    [] call = "truncate_staging" -> "test_connection"
    [] call = "test_connection" -> "load_to_staging"
    [] call = "load_to_staging" -> "load_dim_area"
    [] call = "load_dim_area" -> "update_area_hierarchy"
    [] call = "update_area_hierarchy" -> "load_dim_time_period"
    [] call = "load_dim_time_period" -> "load_dim_metric"
    [] call = "load_dim_metric" -> "load_facts"
    [] call = "load_facts" -> "refresh_analytics_views"
    [] call = "refresh_analytics_views" -> "get_load_statistics"

\* The call order with refresh_analytics_views called before load_facts.
SuccessorRefreshBeforeFacts(call) ==
  CASE call = "extract_all" -> "transform_data"
    [] call = "transform_data" -> "test_connection"
    [] call = "test_connection" -> "truncate_staging"
    [] call = "truncate_staging" -> "load_to_staging"
    [] call = "load_to_staging" -> "load_dim_area"
    [] call = "load_dim_area" -> "update_area_hierarchy"
    [] call = "update_area_hierarchy" -> "load_dim_time_period"
    [] call = "load_dim_time_period" -> "load_dim_metric"
    [] call = "load_dim_metric" -> "refresh_analytics_views"
    [] call = "refresh_analytics_views" -> "load_facts"
    [] call = "load_facts" -> "get_load_statistics"

\* The call that follows a call that returned, in run_pipeline, load_data,
\* load_dimensions and load_dim_area.
Successor(call) ==
  CASE call = "extract_all" -> "transform_data"
    [] call = "transform_data" -> "test_connection"
    [] call = "test_connection" -> "truncate_staging"
    [] call = "truncate_staging" -> "load_to_staging"
    [] call = "load_to_staging" -> "load_dim_area"
    [] call = "load_dim_area" -> "update_area_hierarchy"
    [] call = "update_area_hierarchy" -> "load_dim_time_period"
    [] call = "load_dim_time_period" -> "load_dim_metric"
    [] call = "load_dim_metric" -> "load_facts"
    [] call = "load_facts" -> "refresh_analytics_views"
    [] call = "refresh_analytics_views" -> "get_load_statistics"

\* The call returns and the run goes on with the next one.
Return(call) == pc' = Successor(call) /\ UNCHANGED <<exit_code, stats>>

\* The run stays inside load_to_staging.
Goto(next) == pc' = next /\ UNCHANGED <<exit_code, stats>>

\* An except clause that returns 0.
RaiseReturnsZero == pc' = "failed" /\ exit_code' = Some(0) /\ stats' = NULL

\* The step raises: the exception unwinds load_data and run_pipeline, whose
\* except clauses return 1.
Raise == pc' = "failed" /\ exit_code' = Some(1) /\ stats' = NULL

\* extract_all: FileNotFoundError when a file is missing.
ExtractAll ==
  /\ pc = "extract_all"
  /\ Begin("EXTRACT")
  /\ \E found \in BOOLEAN : IF found THEN Return("extract_all") ELSE Raise
  /\ UNCHANGED <<config, aside, df, prev_stats, tables, locals, refresh_calls>>

\* transform_data: classification of areas and periods, then validation.
TransformData ==
  /\ pc = "transform_data"
  /\ Begin("TRANSFORM")
  /\ IF PeriodClassificationFails(add_area_classification(raw))
       THEN Raise /\ UNCHANGED df
       ELSE Return("transform_data") /\ df' = transform_data(raw)
  /\ UNCHANGED <<config, aside, prev_stats, tables, locals, refresh_calls>>

\* test_connection: ConnectionError when the database cannot be reached.
TestConnection ==
  /\ pc = "test_connection"
  /\ Begin("CONNECT")
  /\ \E ok \in BOOLEAN : IF ok THEN Return("test_connection") ELSE Raise
  /\ UNCHANGED <<config, aside, df, prev_stats, tables, locals, refresh_calls>>

\* truncate_staging
TruncateStaging ==
  /\ pc = "truncate_staging"
  /\ Begin("TRUNCATE_STAGE")
  /\ \E ok \in BOOLEAN :
       IF ok THEN Return("truncate_staging") /\ staging' = TruncateTable(staging)
       ELSE Raise /\ UNCHANGED staging
  /\ UNCHANGED <<config, aside, df, prev_stats, dim_area, dim_time_period,
                 dim_metric, fact_temperature, seq, locals, refresh_calls>>

\* load_to_staging up to its loop: range(0, total_rows, batch_size) raises
\* ValueError for a step of 0.
LoadToStaging ==
  /\ pc = "load_to_staging"
  /\ Begin("LOAD_STAGE")
  /\ batch_size' = BATCH_SIZE
  /\ i' = 0
  /\ IF BATCH_SIZE = 0 THEN Raise ELSE Goto("load_batch")
  /\ UNCHANGED <<config, aside, df, prev_stats, tables, refresh_calls>>

\* A slice that takes the row at start+size as well.
BatchOneMore(rows, start, size) ==
  SubSeq(rows, start + 1, Min(start + size + 1, Len(rows)))

\* df_staging.iloc[start:start+size]
Batch(rows, start, size) ==
  SubSeq(rows, start + 1, Min(start + size, Len(rows)))

\* Whether range(0, total_rows, batch_size) has a value left for the loop.
MoreBatches == batch_size > 0 /\ i < Len(df)

\* One iteration of the loop: batch.to_sql(...) inserts and commits
\* df_staging.iloc[i:i+batch_size], or raises and inserts nothing.
LoadBatch ==
  /\ pc = "load_batch"
  /\ MoreBatches
  /\ \E ok \in BOOLEAN :
       IF ok
         THEN /\ staging' =
                   staging \o Batch(StagingRows(df), i, batch_size)
              /\ i' = i + batch_size
              /\ Goto("load_batch")
         ELSE Raise /\ UNCHANGED <<staging, i>>
  /\ UNCHANGED <<config, aside, df, steps, prev_stats, dim_area, dim_time_period,
                 dim_metric, fact_temperature, seq, batch_size, refresh_calls>>

\* The loop is over: load_to_staging returns.
LoadToStagingReturn ==
  /\ pc = "load_batch"
  /\ ~MoreBatches
  /\ Return("load_to_staging")
  /\ i' = 0
  /\ batch_size' = 0
  /\ UNCHANGED <<config, aside, df, steps, prev_stats, tables, refresh_calls>>

\* TRUNCATE of a dimension ... CASCADE: the fact table, whose foreign keys
\* reference the dimension, is truncated with it.
TruncateCascade(facts) == EmptyBag

\* The points at which a truncate-then-insert step can end: the TRUNCATE
\* raised, the TRUNCATE was committed and the insert raised, both committed.
Outcomes == {"truncate_failed", "insert_failed", "ok"}

\* load_dim_area up to its call of update_area_hierarchy.
LoadDimArea ==
  /\ pc = "load_dim_area"
  /\ Begin("LOAD_DIM_AREA")
  /\ \E outcome \in Outcomes :
       CASE outcome = "truncate_failed" ->
              Raise /\ UNCHANGED <<dim_area, fact_temperature, seq>>
         [] outcome = "insert_failed" ->
              /\ Raise
              /\ dim_area' = TruncateTable(dim_area)
              /\ fact_temperature' = TruncateCascade(fact_temperature)
              /\ seq' = [seq EXCEPT !.area = RestartIdentity(seq.area)]
         [] outcome = "ok" ->
              /\ Return("load_dim_area")
              /\ dim_area' =
                   InsertAreas(TruncateTable(dim_area), AreaFrame(df),
                               RestartIdentity(seq.area))
              /\ fact_temperature' = TruncateCascade(fact_temperature)
              /\ seq' =
                   [seq EXCEPT
                      !.area = RestartIdentity(seq.area) + Len(AreaFrame(df))]
  /\ UNCHANGED <<config, aside, df, prev_stats, staging, dim_time_period,
                 dim_metric, locals, refresh_calls>>

\* update_area_hierarchy, called at the end of load_dim_area: one
\* transaction, committed after the last statement; a statement that raises
\* leaves the connection without commit, and its updates are rolled back.
UpdateAreaHierarchy ==
  /\ pc = "update_area_hierarchy"
  /\ Begin("RESOLVE_HIERARCHY")
  /\ \E ok \in BOOLEAN :
       IF ok /\ ~update_area_hierarchy(dim_area).err
         THEN /\ Return("update_area_hierarchy")
              /\ dim_area' = update_area_hierarchy(dim_area).rows
         ELSE Raise /\ UNCHANGED dim_area
  /\ UNCHANGED <<config, aside, df, prev_stats, staging, dim_time_period,
                 dim_metric, fact_temperature, seq, locals, refresh_calls>>

\* load_dim_time_period
LoadDimTimePeriod ==
  /\ pc = "load_dim_time_period"
  /\ Begin("LOAD_DIM_PERIOD")
  /\ \E outcome \in Outcomes :
       CASE outcome = "truncate_failed" ->
              Raise /\ UNCHANGED <<dim_time_period, fact_temperature, seq>>
         [] outcome = "insert_failed" ->
              /\ Raise
              /\ dim_time_period' = TruncateTable(dim_time_period)
              /\ fact_temperature' = TruncateCascade(fact_temperature)
              /\ seq' = [seq EXCEPT !.period = RestartIdentity(seq.period)]
         [] outcome = "ok" ->
              /\ Return("load_dim_time_period")
              /\ dim_time_period' =
                   InsertPeriods(TruncateTable(dim_time_period),
                                 PeriodFrame(df), RestartIdentity(seq.period))
              /\ fact_temperature' = TruncateCascade(fact_temperature)
              /\ seq' =
                   [seq EXCEPT
                      !.period =
                        RestartIdentity(seq.period) + Len(PeriodFrame(df))]
  /\ UNCHANGED <<config, aside, df, prev_stats, staging, dim_area, dim_metric,
                 locals, refresh_calls>>

\* load_dim_metric
LoadDimMetric ==
  /\ pc = "load_dim_metric"
  /\ Begin("LOAD_DIM_METRIC")
  /\ \E outcome \in Outcomes :
       CASE outcome = "truncate_failed" ->
              Raise /\ UNCHANGED <<dim_metric, fact_temperature, seq>>
         [] outcome = "insert_failed" ->
              /\ Raise
              /\ dim_metric' = TruncateTable(dim_metric)
              /\ fact_temperature' = TruncateCascade(fact_temperature)
              /\ seq' = [seq EXCEPT !.metric = RestartIdentity(seq.metric)]
         [] outcome = "ok" ->
              /\ Return("load_dim_metric")
              /\ dim_metric' =
                   InsertMetrics(TruncateTable(dim_metric), MetricFrame(df),
                                 RestartIdentity(seq.metric))
              /\ fact_temperature' = TruncateCascade(fact_temperature)
              /\ seq' =
                   [seq EXCEPT
                      !.metric =
                        RestartIdentity(seq.metric) + Len(MetricFrame(df))]
  /\ UNCHANGED <<config, aside, df, prev_stats, staging, dim_area,
                 dim_time_period, locals, refresh_calls>>

\* TRUNCATE TABLE core.fact_temperature RESTART IDENTITY
TruncateFacts(facts) == EmptyBag

\* load_facts
LoadFacts ==
  /\ pc = "load_facts"
  /\ Begin("LOAD_FACTS")
  /\ \E outcome \in Outcomes :
       CASE outcome = "truncate_failed" -> Raise /\ UNCHANGED fact_temperature
         [] outcome = "insert_failed" ->
              Raise /\ fact_temperature' = TruncateFacts(fact_temperature)
         [] outcome = "ok" ->
              /\ Return("load_facts")
              /\ fact_temperature' =
                   TruncateFacts(fact_temperature)
                     (+) FactJoin(staging, dim_area, dim_time_period,
                                  dim_metric)
  /\ UNCHANGED <<config, aside, df, prev_stats, staging, dim_area,
                 dim_time_period, dim_metric, seq, locals, refresh_calls>>

\* refresh_analytics_views: the views are outside the five tables.
RefreshAnalyticsViews ==
  /\ pc = "refresh_analytics_views"
  /\ Begin("REFRESH_AGGREGATES")
  /\ refresh_calls' = refresh_calls + 1
  /\ \E ok \in BOOLEAN : IF ok THEN Return("refresh_analytics_views") ELSE Raise
  /\ UNCHANGED <<config, aside, df, prev_stats, tables, locals>>

\* get_load_statistics, then the return of load_data and, after the
\* summary, of run_pipeline with 0.
GetLoadStatistics ==
  /\ pc = "get_load_statistics"
  /\ Begin("REPORT_COUNTS")
  /\ \E ok \in BOOLEAN :
       IF ok
         THEN /\ pc' = "done"
              /\ exit_code' = Some(0)
              /\ stats' =
                   Some(LoadStatistics(staging, dim_area, dim_time_period,
                                       dim_metric, fact_temperature))
         ELSE Raise
  /\ UNCHANGED <<config, aside, df, prev_stats, tables, locals, refresh_calls>>

\* The pipeline is started again on the same input files and configuration,
\* against the warehouse as the run before left it (any number of times).
StartRun ==
  /\ pc \in {"done", "failed"}
  /\ pc' = "extract_all"
  /\ df' = <<>>
  /\ steps' = <<>>
  /\ exit_code' = NULL
  /\ prev_stats' = stats
  /\ stats' = NULL
  /\ i' = 0
  /\ batch_size' = 0
  /\ refresh_calls' = 0
  /\ UNCHANGED <<config, aside, tables>>

Next ==
  \/ ExtractAll
  \/ TransformData
  \/ TestConnection
  \/ TruncateStaging
  \/ LoadToStaging
  \/ LoadBatch
  \/ LoadToStagingReturn
  \/ LoadDimArea
  \/ UpdateAreaHierarchy
  \/ LoadDimTimePeriod
  \/ LoadDimMetric
  \/ LoadFacts
  \/ RefreshAnalyticsViews
  \/ GetLoadStatistics
  \/ StartRun

Spec == Init /\ [][Next]_vars

\* ================================================================== calls
\* The specification Calls: the functions of the transform phase, each
\* called on its own with an argument from a bounded set.

\* The names with no, a leading, a trailing and both blanks.
Pad(names) ==
  names \cup {<<Sp>> \o n : n \in names} \cup {n \o <<Sp>> : n \in names}
    \cup {<<Sp>> \o n \o <<Sp>> : n \in names}

\* Every name of some list of a type mapping.
Configured(mapping) == UNION {mapping[k][2] : k \in DOMAIN mapping}

\* Area names: the configured ones, an unknown one, one in another case, one
\* with a blank inside and the empty one, each with and without blanks
\* around it.
AreaNames ==
  Pad(Configured(AREA_TYPE_MAPPING)
        \cup {Txt("Atlantis"), Txt("world"), <<"World", Sp, "Bank">>, <<>>})

AreaTypes == {"world", "continent", "subregion", "country"}

\* Period names, chosen likewise.
PeriodNames ==
  Pad(Configured(PERIOD_TYPE_MAPPING) \cup {Txt("Foo"), Txt("january"), <<>>})

\* Long records for validate_data: years at, next to and between the bounds
\* of the window; no value, values at and next to the bounds of the
\* temperature range, and a value out of that range of another element.
ValidateUniverse ==
  {LongRecord(5000, Some("001"), Txt("World"), Some(7001), Txt("January"),
              Some(7271), c[1], yr, c[2]) :
     yr \in {MIN_YEAR - 1, MIN_YEAR, 2000, MAX_YEAR, MAX_YEAR + 1},
     c \in {<<TempChange, NULL>>, <<TempChange, Some(MIN_TEMP_CHANGE - 1)>>,
            <<TempChange, Some(MIN_TEMP_CHANGE)>>,
            <<TempChange, Some(MAX_TEMP_CHANGE)>>,
            <<TempChange, Some(MAX_TEMP_CHANGE + 1)>>,
            <<StdDev, Some(MAX_TEMP_CHANGE + 1)>>}}

ValidateInputs == SeqsUpTo(ValidateUniverse, MaxRows)

\* Column labels: two year columns, a column that is none, and a flag
\* column as the FAO files with flags have them.
Labels ==
  {<<"Y", "2", "0", "0", "0">>, <<"Y", "2", "0", "0", "1">>,
   <<"N", "o", "t", "e">>, <<"Y", "2", "0", "0", "0", "F">>}

\* The column lists of the raw frames: distinct labels in any order.
ColumnLists ==
  {q \in SeqsUpTo(Labels, MaxCols) :
     \A j, k \in DOMAIN q : j # k => q[j] # q[k]}

\* The identifier values of a raw row.
Ids(ac, m49, an, mc, pn, ec, en, u) ==
  [c \in id_cols |->
     CASE c = "Area Code" -> ac
       [] c = "Area Code (M49)" -> m49
       [] c = "Area" -> an
       [] c = "Months Code" -> mc
       [] c = "Months" -> pn
       [] c = "Element Code" -> ec
       [] c = "Element" -> en
       [] c = "Unit" -> u]

RawIds ==
  {Ids(5000, Some("001"), Txt("World"), Some(7001), Txt("January"),
       Some(7271), TempChange, Txt("C")),
   Ids(5100, NULL, <<"Africa", Sp>>, Some(7020), Txt("Meteorological year"),
       Some(6078), StdDev, Txt("K"))}

\* All sequences over S of length n.
SeqsOfLen(S, n) == {q \in SeqsUpTo(S, n) : Len(q) = n}

\* The raw frames with the column list cols: at most MaxRows rows, whose
\* cells are empty or hold a value.
RawFrames(cols) ==
  {[columns |-> cols, rows |-> rows] :
     rows \in SeqsUpTo([ids : RawIds,
                        cells : SeqsOfLen({NULL, Some(1)}, Len(cols))],
                       MaxRows)}

\* The pipeline stands still while functions are called on their own.
PipelineIdle ==
  /\ raw = <<>>
  /\ BATCH_SIZE = 0
  /\ staging = EmptyWarehouse.staging
  /\ dim_area = EmptyWarehouse.dim_area
  /\ dim_time_period = EmptyWarehouse.dim_time_period
  /\ dim_metric = EmptyWarehouse.dim_metric
  /\ fact_temperature = EmptyWarehouse.fact_temperature
  /\ seq = EmptyWarehouse.seq
  /\ RunIdle

CallsInit ==
  /\ fn = "none"
  /\ arg = NoArg
  /\ res = NoRes
  /\ runs = <<>>
  /\ serial = TRUE
  /\ PipelineIdle

\* What a call leaves alone.
others == <<config, tables, run, runs, serial>>

CallClassifyArea ==
  /\ fn = "none"
  /\ fn' = "classify_area"
  /\ \E name \in AreaNames :
       /\ arg' = [NoArg EXCEPT !.name = name]
       /\ res' = [NoRes EXCEPT !.type = classify_area(name)]
  /\ UNCHANGED others

CallGetParentArea ==
  /\ fn = "none"
  /\ fn' = "get_parent_area"
  /\ \E name \in AreaNames, type \in AreaTypes :
       /\ arg' = [NoArg EXCEPT !.name = name, !.area_type = type]
       /\ res' = [NoRes EXCEPT !.parent = get_parent_area(name, type)]
  /\ UNCHANGED others

CallClassifyPeriod ==
  /\ fn = "none"
  /\ fn' = "classify_period"
  /\ \E name \in PeriodNames :
       /\ arg' = [NoArg EXCEPT !.name = name]
       /\ res' = [NoRes EXCEPT !.type = classify_period(name)]
  /\ UNCHANGED others

\* period_type "error" in the result stands for the ValueError of
\* classify_period, which get_period_attributes lets through.
CallGetPeriodAttributes ==
  /\ fn = "none"
  /\ fn' = "get_period_attributes"
  /\ \E name \in PeriodNames :
       /\ arg' = [NoArg EXCEPT !.name = name]
       /\ res' = [NoRes EXCEPT !.attrs = get_period_attributes(name)]
  /\ UNCHANGED others

CallUnpivotYears ==
  /\ fn = "none"
  /\ fn' = "unpivot_years"
  /\ \E cols \in ColumnLists : \E frame \in RawFrames(cols) :
       /\ arg' = [NoArg EXCEPT !.frame = frame]
       /\ res' = [NoRes EXCEPT !.unpivoted = unpivot_years(frame)]
  /\ UNCHANGED others

\* validate_data returns the frame; what it logs is kept next to it.
CallValidateData ==
  /\ fn = "none"
  /\ fn' = "validate_data"
  /\ \E rows \in ValidateInputs :
       /\ arg' = [NoArg EXCEPT !.rows = rows]
       /\ res' = [NoRes EXCEPT !.df = validate_data(rows),
                               !.log = ValidationLog(rows)]
  /\ UNCHANGED others

\* The call is over.
CallReturns ==
  /\ fn # "none"
  /\ fn' = "none"
  /\ arg' = NoArg
  /\ res' = NoRes
  /\ UNCHANGED others

CallsNext ==
  \/ CallClassifyArea
  \/ CallGetParentArea
  \/ CallClassifyPeriod
  \/ CallGetPeriodAttributes
  \/ CallUnpivotYears
  \/ CallValidateData
  \/ CallReturns

Calls == CallsInit /\ [][CallsNext]_vars

\* ============================================================= concurrent
\* The specification Concurrent: the pipeline is invoked twice on the same
\* input files and configuration, and the load phases of the two runs work
\* on the same warehouse. A step is one committed transaction of load.py: a
\* TRUNCATE, the insert of a batch or of a frame, the hierarchy update, the
\* INSERT ... SELECT of the facts, the row counts. The steps that touch no
\* table (test_connection, refresh_analytics_views) are left out, and no
\* statement fails for a reason outside the data.
Procs == {1, 2}

Other(p) == 3 - p

\* The records of Universe that go into the shared input.
SharedUniverse ==
  {r \in Universe :
     /\ r.area_name \in {Txt("World"), Txt("Africa"), Txt("Eastern Africa")}
     /\ classify_period(r.period_name) # "error"}

SharedInputs == SeqsUpTo(SharedUniverse, MaxShared)

\* transformed_data, the same in both runs.
Transformed == transform_data(raw)

\* The run has begun its load phase and has not ended.
UnderWay(p) == runs[p].pc \notin {"truncate_staging", "done", "failed"}

ConcurrentInit ==
  /\ raw \in SharedInputs
  /\ BATCH_SIZE \in 1 .. MaxBatch
  /\ \E w \in {EmptyWarehouse, LegacyWarehouse} :
       /\ staging = w.staging
       /\ dim_area = w.dim_area
       /\ dim_time_period = w.dim_time_period
       /\ dim_metric = w.dim_metric
       /\ fact_temperature = w.fact_temperature
       /\ seq = w.seq
  /\ runs = [p \in Procs |->
               [pc |-> "truncate_staging", i |-> 0, batch_size |-> 0,
                stats |-> NULL]]
  /\ serial = TRUE
  /\ RunIdle
  /\ fn = "none"
  /\ arg = NoArg
  /\ res = NoRes

\* What a step of a run leaves alone besides the tables.
still == <<config, run, fn, arg, res>>

\* Run p takes a step from call to next.
Step(p, call, next) ==
  /\ runs[p].pc = call
  /\ runs' = [runs EXCEPT ![p].pc = next]
  /\ serial' = (serial /\ ~UnderWay(Other(p)))

RunTruncateStaging(p) ==
  /\ Step(p, "truncate_staging", "load_to_staging")
  /\ staging' = TruncateTable(staging)
  /\ UNCHANGED <<still, dim_area, dim_time_period, dim_metric,
                 fact_temperature, seq>>

RunLoadToStaging(p) ==
  /\ runs[p].pc = "load_to_staging"
  /\ runs' = [runs EXCEPT ![p].pc = "load_batch", ![p].i = 0,
                          ![p].batch_size = BATCH_SIZE]
  /\ serial' = (serial /\ ~UnderWay(Other(p)))
  /\ UNCHANGED <<still, tables>>

RunLoadBatch(p) ==
  /\ runs[p].pc = "load_batch"
  /\ runs[p].i < Len(Transformed)
  /\ staging' =
       staging \o Batch(StagingRows(Transformed), runs[p].i, runs[p].batch_size)
  /\ runs' = [runs EXCEPT ![p].i = runs[p].i + runs[p].batch_size]
  /\ serial' = (serial /\ ~UnderWay(Other(p)))
  /\ UNCHANGED <<still, dim_area, dim_time_period, dim_metric,
                 fact_temperature, seq>>

RunLoadToStagingReturn(p) ==
  /\ runs[p].pc = "load_batch"
  /\ ~(runs[p].i < Len(Transformed))
  /\ runs' = [runs EXCEPT ![p].pc = "truncate_dim_area", ![p].i = 0,
                          ![p].batch_size = 0]
  /\ serial' = (serial /\ ~UnderWay(Other(p)))
  /\ UNCHANGED <<still, tables>>

RunTruncateDimArea(p) ==
  /\ Step(p, "truncate_dim_area", "insert_dim_area")
  /\ dim_area' = TruncateTable(dim_area)
  /\ fact_temperature' = TruncateCascade(fact_temperature)
  /\ seq' = [seq EXCEPT !.area = RestartIdentity(seq.area)]
  /\ UNCHANGED <<still, staging, dim_time_period, dim_metric>>

RunInsertDimArea(p) ==
  /\ Step(p, "insert_dim_area", "update_area_hierarchy")
  /\ dim_area' = InsertAreas(dim_area, AreaFrame(Transformed), seq.area)
  /\ seq' = [seq EXCEPT !.area = seq.area + Len(AreaFrame(Transformed))]
  /\ UNCHANGED <<still, staging, dim_time_period, dim_metric,
                 fact_temperature>>

RunUpdateAreaHierarchy(p) ==
  /\ runs[p].pc = "update_area_hierarchy"
  /\ IF update_area_hierarchy(dim_area).err
       THEN /\ runs' = [runs EXCEPT ![p].pc = "failed"]
            /\ UNCHANGED dim_area
       ELSE /\ runs' = [runs EXCEPT ![p].pc = "truncate_dim_time_period"]
            /\ dim_area' = update_area_hierarchy(dim_area).rows
  /\ serial' = (serial /\ ~UnderWay(Other(p)))
  /\ UNCHANGED <<still, staging, dim_time_period, dim_metric,
                 fact_temperature, seq>>

RunTruncateDimTimePeriod(p) ==
  /\ Step(p, "truncate_dim_time_period", "insert_dim_time_period")
  /\ dim_time_period' = TruncateTable(dim_time_period)
  /\ fact_temperature' = TruncateCascade(fact_temperature)
  /\ seq' = [seq EXCEPT !.period = RestartIdentity(seq.period)]
  /\ UNCHANGED <<still, staging, dim_area, dim_metric>>

RunInsertDimTimePeriod(p) ==
  /\ Step(p, "insert_dim_time_period", "truncate_dim_metric")
  /\ dim_time_period' =
       InsertPeriods(dim_time_period, PeriodFrame(Transformed), seq.period)
  /\ seq' = [seq EXCEPT !.period = seq.period + Len(PeriodFrame(Transformed))]
  /\ UNCHANGED <<still, staging, dim_area, dim_metric, fact_temperature>>

RunTruncateDimMetric(p) ==
  /\ Step(p, "truncate_dim_metric", "insert_dim_metric")
  /\ dim_metric' = TruncateTable(dim_metric)
  /\ fact_temperature' = TruncateCascade(fact_temperature)
  /\ seq' = [seq EXCEPT !.metric = RestartIdentity(seq.metric)]
  /\ UNCHANGED <<still, staging, dim_area, dim_time_period>>

RunInsertDimMetric(p) ==
  /\ Step(p, "insert_dim_metric", "truncate_facts")
  /\ dim_metric' = InsertMetrics(dim_metric, MetricFrame(Transformed), seq.metric)
  /\ seq' = [seq EXCEPT !.metric = seq.metric + Len(MetricFrame(Transformed))]
  /\ UNCHANGED <<still, staging, dim_area, dim_time_period, fact_temperature>>

RunTruncateFacts(p) ==
  /\ Step(p, "truncate_facts", "insert_facts")
  /\ fact_temperature' = TruncateFacts(fact_temperature)
  /\ UNCHANGED <<still, staging, dim_area, dim_time_period, dim_metric, seq>>

RunInsertFacts(p) ==
  /\ Step(p, "insert_facts", "get_load_statistics")
  /\ fact_temperature' =
       fact_temperature
         (+) FactJoin(staging, dim_area, dim_time_period, dim_metric)
  /\ UNCHANGED <<still, staging, dim_area, dim_time_period, dim_metric, seq>>

RunGetLoadStatistics(p) ==
  /\ runs[p].pc = "get_load_statistics"
  /\ runs' =
       [runs EXCEPT
          ![p].pc = "done",
          ![p].stats =
            Some(LoadStatistics(staging, dim_area, dim_time_period,
                                dim_metric, fact_temperature))]
  /\ serial' = (serial /\ ~UnderWay(Other(p)))
  /\ UNCHANGED <<still, tables>>

ConcurrentNext ==
  \E p \in Procs :
    \/ RunTruncateStaging(p)
    \/ RunLoadToStaging(p)
    \/ RunLoadBatch(p)
    \/ RunLoadToStagingReturn(p)
    \/ RunTruncateDimArea(p)
    \/ RunInsertDimArea(p)
    \/ RunUpdateAreaHierarchy(p)
    \/ RunTruncateDimTimePeriod(p)
    \/ RunInsertDimTimePeriod(p)
    \/ RunTruncateDimMetric(p)
    \/ RunInsertDimMetric(p)
    \/ RunTruncateFacts(p)
    \/ RunInsertFacts(p)
    \/ RunGetLoadStatistics(p)

Concurrent == ConcurrentInit /\ [][ConcurrentNext]_vars

\* ================================================================= claims
\* The step has been begun and has returned in the current run.
Completed(step) ==
  \E k \in DOMAIN steps :
     /\ steps[k] = step
     /\ k < Len(steps) \/ pc \notin {"failed", "load_batch"}

\* The current run failed in the step.
FailedIn(step) == pc = "failed" /\ steps # <<>> /\ steps[Len(steps)] = step

\* C1: a run that completes after a completed run on the same input reports
\* the same row counts of staging, the three dimensions and the fact table
\* as the run before it, whatever the warehouse held before the first run.
C1_IdempotentReload ==
  (pc = "done" /\ prev_stats # NULL) => stats = prev_stats

C1_Witness ==
  /\ pc = "done"
  /\ prev_stats # NULL
  /\ Val(stats).Staging >= 2
  /\ Val(stats).Areas >= 2
  /\ Val(stats).Facts >= 1

\* The combinations of a staged row and one row of each dimension, the join
\* condition of load_facts on them and the fact row they project to.
Combos ==
  (DOMAIN staging) \X (DOMAIN dim_area) \X (DOMAIN dim_time_period)
    \X (DOMAIN dim_metric)

Matches(c) ==
  /\ staging[c[1]].m49_code # NULL
  /\ staging[c[1]].m49_code = dim_area[c[2]].m49_code
  /\ staging[c[1]].months_code # NULL
  /\ staging[c[1]].months_code = dim_time_period[c[3]].period_code
  /\ staging[c[1]].element_code # NULL
  /\ staging[c[1]].element_code = dim_metric[c[4]].metric_code

FactOf(c) ==
  [area_key |-> dim_area[c[2]].area_key,
   period_key |-> dim_time_period[c[3]].period_key,
   metric_key |-> dim_metric[c[4]].metric_key,
   year |-> staging[c[1]].year, value |-> staging[c[1]].value]

\* C2: once load_facts has returned, the fact table holds exactly the rows
\* (area_key, period_key, metric_key, year, value) of the combinations of a
\* staged row and dimension rows whose three natural keys match: every fact
\* row comes from such a combination, every such combination has its fact
\* row, each as often as combinations project to it, and a staged row that
\* fails a join leg has none.
C2_FactsAreTheJoin ==
  Completed("LOAD_FACTS") =>
    /\ \A f \in BagToSet(fact_temperature) :
          /\ \E c \in Combos : Matches(c) /\ FactOf(c) = f
          /\ CopiesIn(f, fact_temperature) =
               Cardinality({c \in Combos : Matches(c) /\ FactOf(c) = f})
    /\ \A c \in Combos : Matches(c) => BagIn(FactOf(c), fact_temperature)
    /\ BagCardinality(fact_temperature) =
         Cardinality({c \in Combos : Matches(c)})

\* The fact load has returned with a staged row that joined and a staged row
\* (NULL M49 code) that did not.
C2_Witness ==
  /\ Completed("LOAD_FACTS")
  /\ \E c \in Combos : Matches(c)
  /\ \E n \in DOMAIN staging :
        /\ staging[n].m49_code = NULL
        /\ \E k \in DOMAIN dim_area : dim_area[k].m49_code = NULL
        /\ \A c \in Combos : c[1] = n => ~Matches(c)

\* The attribute tuples of the rows of a dimension table (without the
\* surrogate key and the parent reference) and of the transformed records.
AreaTupleOf(r) ==
  <<r.area_code, r.m49_code, r.area_name, r.area_type>>
PeriodTupleOf(code, r) ==
  <<code, r.period_name, r.period_type, r.month_number, r.quarter>>
MetricTupleOf(code, name, unit) == <<code, name, unit>>

\* No two positions of the sequence hold the same value.
Distinct(q) == \A j, k \in DOMAIN q : j # k => q[j] # q[k]

\* C3: once a dimension load has returned, its table holds one row for
\* every distinct attribute tuple of the transformed records and no other
\* row, no two rows carry the same tuple, and the surrogate keys of the rows
\* are distinct.
C3_DimensionDedup ==
  /\ Completed("LOAD_DIM_AREA") =>
       /\ {AreaTupleOf(dim_area[k]) : k \in DOMAIN dim_area}
            = {AreaTupleOf(df[n]) : n \in DOMAIN df}
       /\ Distinct([k \in DOMAIN dim_area |-> AreaTupleOf(dim_area[k])])
       /\ Distinct([k \in DOMAIN dim_area |-> dim_area[k].area_key])
  /\ Completed("LOAD_DIM_PERIOD") =>
       /\ {PeriodTupleOf(dim_time_period[k].period_code, dim_time_period[k]) :
             k \in DOMAIN dim_time_period}
            = {PeriodTupleOf(df[n].months_code, df[n]) : n \in DOMAIN df}
       /\ Distinct([k \in DOMAIN dim_time_period |->
                      PeriodTupleOf(dim_time_period[k].period_code,
                                    dim_time_period[k])])
       /\ Distinct([k \in DOMAIN dim_time_period |->
                      dim_time_period[k].period_key])
  /\ Completed("LOAD_DIM_METRIC") =>
       /\ {MetricTupleOf(dim_metric[k].metric_code, dim_metric[k].metric_name,
                         dim_metric[k].unit) : k \in DOMAIN dim_metric}
            = {MetricTupleOf(df[n].element_code, df[n].element_name,
                             df[n].unit) : n \in DOMAIN df}
       /\ Distinct([k \in DOMAIN dim_metric |->
                      MetricTupleOf(dim_metric[k].metric_code,
                                    dim_metric[k].metric_name,
                                    dim_metric[k].unit)])
       /\ Distinct([k \in DOMAIN dim_metric |-> dim_metric[k].metric_key])

\* The three dimensions are loaded from records of which two share their
\* area tuple and all share their period and metric tuples.
C3_Witness ==
  /\ Completed("LOAD_DIM_METRIC")
  /\ Len(df) = 3
  /\ Len(dim_area) = 2
  /\ Len(dim_time_period) = 1
  /\ Len(dim_metric) = 1

\* C4: once update_area_hierarchy has returned on an area dimension that
\* holds a world row, every continent row has the surrogate key of the world
\* row as its parent_area_key.
C4_ContinentsPointToWorld ==
  Completed("RESOLVE_HIERARCHY") =>
    \A w, k \in DOMAIN dim_area :
       (dim_area[w].area_type = "world" /\ dim_area[k].area_type = "continent")
         => dim_area[k].parent_area_key = Some(dim_area[w].area_key)

\* The hierarchy is resolved with a continent row inserted before the world
\* row.
C4_Witness ==
  /\ Completed("RESOLVE_HIERARCHY")
  /\ \E w, k \in DOMAIN dim_area :
        /\ k < w
        /\ dim_area[w].area_type = "world"
        /\ dim_area[k].area_type = "continent"
        /\ dim_area[k].parent_area_key = Some(dim_area[w].area_key)

\* C5: once update_area_hierarchy has returned, every subregion row (typed
\* by classify_area on the trimmed name) whose configured parent continent is
\* present as a continent row has that row's surrogate key as its
\* parent_area_key, and a subregion without configured parent continent has
\* a NULL parent_area_key.
C5_SubregionsPointToContinent ==
  Completed("RESOLVE_HIERARCHY") =>
    \A k \in DOMAIN dim_area :
       dim_area[k].area_type = "subregion" =>
         LET parent == SUBREGION_TO_CONTINENT(Strip(dim_area[k].area_name))
         IN IF parent = NULL THEN dim_area[k].parent_area_key = NULL
            ELSE \A c \in DOMAIN dim_area :
                    (/\ dim_area[c].area_type = "continent"
                     /\ dim_area[c].area_name = Val(parent))
                      => dim_area[k].parent_area_key
                           = Some(dim_area[c].area_key)

\* The rows the parent_area_key of row k references.
ParentRows(k) ==
  {j \in DOMAIN dim_area :
     dim_area[k].parent_area_key = Some(dim_area[j].area_key)}

\* Following parent_area_key from row k ends at a row without parent after
\* at most n hops.
RECURSIVE EndsWithin(_, _)
EndsWithin(k, n) ==
  \/ dim_area[k].parent_area_key = NULL
  \/ /\ n > 0
     /\ ParentRows(k) # {}
     /\ \A j \in ParentRows(k) : EndsWithin(j, n - 1)

IsPrefix(p, q) == Len(p) <= Len(q) /\ p = SubSeq(q, 1, Len(p))

\* The steps of load_data among the steps of the run (after EXTRACT and
\* TRANSFORM).
LoadSteps == SubSeq(steps, 3, Len(steps))

ClaimedOrder ==
  <<"CONNECT", "TRUNCATE_STAGE", "LOAD_STAGE", "LOAD_DIM_AREA",
    "LOAD_DIM_PERIOD", "LOAD_DIM_METRIC", "RESOLVE_HIERARCHY", "LOAD_FACTS",
    "REFRESH_AGGREGATES", "REPORT_COUNTS">>

ActualOrder ==
  <<"CONNECT", "TRUNCATE_STAGE", "LOAD_STAGE", "LOAD_DIM_AREA",
    "RESOLVE_HIERARCHY", "LOAD_DIM_PERIOD", "LOAD_DIM_METRIC", "LOAD_FACTS",
    "REFRESH_AGGREGATES", "REPORT_COUNTS">>

\* C7 as claimed: the steps of a load run are begun in the order CONNECT,
\* TRUNCATE_STAGE, LOAD_STAGE, the three dimension loads, RESOLVE_HIERARCHY,
\* LOAD_FACTS, REFRESH_AGGREGATES, REPORT_COUNTS, each at most once.
C7_OrderAsClaimed == IsPrefix(LoadSteps, ClaimedOrder)

\* C7 amended: the steps of a load run are begun in the order CONNECT,
\* TRUNCATE_STAGE, LOAD_STAGE, LOAD_DIM_AREA, RESOLVE_HIERARCHY,
\* LOAD_DIM_PERIOD, LOAD_DIM_METRIC, LOAD_FACTS, REFRESH_AGGREGATES,
\* REPORT_COUNTS, each at most once and each after its predecessor has
\* returned: the hierarchy resolution follows the load of the area dimension
\* and precedes the loads of the period and metric dimensions and of the
\* facts.
C7_StepOrder ==
  /\ IsPrefix(LoadSteps, ActualOrder)
  /\ \A k \in DOMAIN steps : k < Len(steps) => Completed(steps[k])
  /\ pc = "done" => LoadSteps = ActualOrder

C7_Witness ==
  /\ pc = "load_dim_time_period"
  /\ LoadSteps =
       <<"CONNECT", "TRUNCATE_STAGE", "LOAD_STAGE", "LOAD_DIM_AREA",
         "RESOLVE_HIERARCHY">>
  /\ dim_area # <<>>

\* The steps of a whole run.
AllSteps == <<"EXTRACT", "TRANSFORM">> \o ActualOrder

\* What the steps that have returned in the current run have committed is
\* in the warehouse.
CommittedEffectsRemain ==
  /\ Completed("TRUNCATE_STAGE") => IsPrefix(staging, StagingRows(df))
  /\ Completed("LOAD_STAGE") => staging = StagingRows(df)
  /\ Completed("LOAD_DIM_AREA") =>
       /\ Len(dim_area) = Len(AreaFrame(df))
       /\ \A k \in DOMAIN dim_area :
             /\ dim_area[k].area_key = k
             /\ AreaTupleOf(dim_area[k]) = AreaTupleOf(AreaFrame(df)[k])
  /\ Completed("RESOLVE_HIERARCHY") =>
       \A k \in DOMAIN dim_area :
          dim_area[k].area_type = "continent" =>
            \A w \in DOMAIN dim_area :
               dim_area[w].area_type = "world" =>
                 dim_area[k].parent_area_key = Some(dim_area[w].area_key)
  /\ Completed("LOAD_DIM_PERIOD") =>
       /\ Len(dim_time_period) = Len(PeriodFrame(df))
       /\ \A k \in DOMAIN dim_time_period :
             /\ dim_time_period[k].period_key = k
             /\ PeriodTupleOf(dim_time_period[k].period_code,
                              dim_time_period[k])
                  = PeriodTupleOf(PeriodFrame(df)[k].period_code,
                                  PeriodFrame(df)[k])
  /\ Completed("LOAD_DIM_METRIC") =>
       /\ Len(dim_metric) = Len(MetricFrame(df))
       /\ \A k \in DOMAIN dim_metric :
             /\ dim_metric[k].metric_key = k
             /\ dim_metric[k].metric_code = MetricFrame(df)[k].metric_code
  /\ Completed("LOAD_FACTS") =>
       BagCardinality(fact_temperature)
         = Cardinality({c \in Combos : Matches(c)})

C8_Inv ==
  /\ pc = "failed" => exit_code = Some(1) /\ stats = NULL
  /\ pc \notin {"failed", "done"} => exit_code = NULL /\ stats = NULL
  /\ (pc = "done" \/ exit_code = Some(0) \/ stats # NULL) =>
       /\ pc = "done"
       /\ exit_code = Some(0)
       /\ stats # NULL
       /\ steps = AllSteps
       /\ \A k \in DOMAIN AllSteps : Completed(AllSteps[k])
  /\ IsPrefix(steps, AllSteps)
  /\ CommittedEffectsRemain

\* From a failed run no step follows but the start of another run, which
\* leaves the tables as they are.
C8_Step == pc = "failed" => (steps' = <<>> /\ UNCHANGED tables)

\* C8: when a step of a run fails, no later step of the run is executed and
\* no step is executed again, the run ends with exit code 1 and without row
\* counts, and what the completed steps committed stays in the warehouse;
\* exit code 0 and row counts are reported only by a run all of whose steps
\* have completed.
C8_FailureEndsRun == []C8_Inv /\ [][C8_Step]_vars

\* The fact load failed after the staging and dimension loads completed.
C8_Witness ==
  /\ FailedIn("LOAD_FACTS")
  /\ Len(staging) >= 2
  /\ Len(dim_area) >= 2
  /\ dim_time_period # <<>>
  /\ dim_metric # <<>>

\* C9: a dimension load, the hierarchy resolution or the fact load that
\* fails leaves the dimension and fact tables as they were when the step
\* began.
C9_FailedStepChangesNothing ==
  [][(/\ pc \in {"load_dim_area", "update_area_hierarchy",
                 "load_dim_time_period", "load_dim_metric", "load_facts"}
      /\ pc' = "failed")
       => UNCHANGED <<dim_area, dim_time_period, dim_metric,
                      fact_temperature>>]_vars

C10_Inv ==
  BATCH_SIZE > 0 =>
    /\ (pc = "load_batch" \/ FailedIn("LOAD_STAGE")) =>
         /\ batch_size = BATCH_SIZE
         /\ i % BATCH_SIZE = 0
         /\ staging = SubSeq(StagingRows(df), 1, Min(i, Len(df)))
    /\ FailedIn("LOAD_STAGE") => i < Len(df)
    /\ Completed("LOAD_STAGE") =>
         /\ staging = StagingRows(df)
         /\ Len(staging) = Len(df)

C10_Step ==
  BATCH_SIZE > 0 =>
    /\ (pc = "load_batch" /\ staging' # staging) =>
         /\ pc' = "load_batch"
         /\ \E n \in 1 .. BATCH_SIZE :
               /\ n = BATCH_SIZE \/ i + n = Len(df)
               /\ i + n <= Len(df)
               /\ staging' = staging \o SubSeq(StagingRows(df), i + 1, i + n)
    /\ (pc = "load_batch" /\ pc' = "load_dim_area") =>
         staging' = StagingRows(df)
    /\ (pc = "load_batch" /\ pc' = "failed") => staging' = staging
    /\ FailedIn("LOAD_STAGE") => staging' = staging

\* C10: with a positive BATCH_SIZE, load_to_staging appends the records in
\* input order in consecutive batches of BATCH_SIZE records (the last one
\* may be shorter), each committed before the next; when it returns, the
\* staging table holds every record once; when a batch fails, the staging
\* table holds the records of the batches before it and stays so.
C10_BatchedStaging == []C10_Inv /\ [][C10_Step]_vars

\* The second batch of size 2 failed: the first batch is staged, the third
\* record is not.
C10_Witness ==
  /\ FailedIn("LOAD_STAGE")
  /\ BATCH_SIZE = 2
  /\ i = 2
  /\ Len(df) = 3
  /\ Len(staging) = 2

\* The trimmed name is in none of the configured lists of period names.
UnknownPeriod(name) == Strip(name) \notin Configured(PERIOD_TYPE_MAPPING)

\* Some record of the input carries such a name.
HasUnknownPeriod == \E k \in DOMAIN raw : UnknownPeriod(raw[k].period_name)

\* classify_period raises on exactly the unknown names.
RaisesOnUnknownPeriods ==
  \A name \in PeriodNames :
    (classify_period(name) = "error") <=> UnknownPeriod(name)

C11_Inv ==
  /\ RaisesOnUnknownPeriods
  /\ \A k \in DOMAIN raw :
       (classify_period(raw[k].period_name) = "error")
         <=> UnknownPeriod(raw[k].period_name)
  /\ HasUnknownPeriod =>
       /\ pc \in {"extract_all", "transform_data", "failed"}
       /\ IsPrefix(steps, <<"EXTRACT", "TRANSFORM">>)
       /\ exit_code \in {NULL, Some(1)}
       /\ pc = "failed" => exit_code = Some(1)
       /\ Completed("EXTRACT") => ~Completed("TRANSFORM")

C11_Step == HasUnknownPeriod => UNCHANGED tables

\* C11: classify_period raises on every name that, trimmed, is none of the
\* configured month, season and annual names, and on no other; a run whose
\* input holds a record with such a name ends in failure with exit code 1
\* in the transform phase at the latest, begins no step of the load phase,
\* and no step of it changes a table of the warehouse.
C11_UnknownPeriodFailsRun == []C11_Inv /\ [][C11_Step]_vars

\* A run on an input with the period name "Foo" has failed in the transform
\* phase and the warehouse still holds what the run before left.
C11_Witness ==
  /\ HasUnknownPeriod
  /\ FailedIn("TRANSFORM")
  /\ exit_code = Some(1)
  /\ staging = LegacyWarehouse.staging
  /\ dim_area = LegacyWarehouse.dim_area
  /\ fact_temperature = LegacyWarehouse.fact_temperature
  /\ fact_temperature # EmptyBag

\* The types of the lists of PERIOD_TYPE_MAPPING that hold the name.
PeriodTypesHolding(name) ==
  {PERIOD_TYPE_MAPPING[k][1] :
     k \in {j \in DOMAIN PERIOD_TYPE_MAPPING : name \in PERIOD_TYPE_MAPPING[j][2]}}

\* The two spellings of the season of each quarter.
SeasonSpellings ==
  << <<Txt("December-January-February"), Txt("Dec--Jan--Feb")>>,
     <<Txt("March-April-May"), Txt("Mar--Apr--May")>>,
     <<Txt("June-July-August"), Txt("Jun--Jul--Aug")>>,
     <<Txt("September-October-November"), Txt("Sep--Oct--Nov")>> >>

\* C12: called with a name of the configured month, season or annual list,
\* get_period_attributes does not raise and returns as period_type the type
\* of the one list that holds the name; for each quarter, the spelling of
\* its season with hyphens and the one with en dashes get the same quarter
\* number.
C12_ConfiguredPeriodTypes ==
  (fn = "get_period_attributes" /\ arg.name \in Configured(PERIOD_TYPE_MAPPING)) =>
    /\ res.attrs.period_type # "error"
    /\ PeriodTypesHolding(arg.name) = {res.attrs.period_type}
    /\ \A q \in DOMAIN SeasonSpellings :
         arg.name \in Range(SeasonSpellings[q]) =>
           /\ res.attrs.quarter # NULL
           /\ res.attrs.quarter = get_period_attributes(SeasonSpellings[q][1]).quarter
           /\ res.attrs.quarter = get_period_attributes(SeasonSpellings[q][2]).quarter

\* get_period_attributes was called with the en dash spelling of the third
\* quarter.
C12_Witness ==
  /\ fn = "get_period_attributes"
  /\ arg.name = Txt("Jun--Jul--Aug")
  /\ res.attrs.period_type = "season"
  /\ res.attrs.quarter = Some(3)
  /\ get_period_attributes(Txt("June-July-August")).quarter = Some(3)

\* C13: whenever get_period_attributes returns, blanks around the name or
\* not, month_number is a number from 1 to 12 if period_type is "month" and
\* none otherwise, and quarter is a number from 1 to 4 if period_type is
\* "season" and none otherwise.
C13_AttributesFollowType ==
  (fn = "get_period_attributes" /\ res.attrs.period_type # "error") =>
    /\ (res.attrs.period_type = "month") <=> (res.attrs.month_number # NULL)
    /\ res.attrs.month_number # NULL => Val(res.attrs.month_number) \in 1 .. 12
    /\ (res.attrs.period_type = "season") <=> (res.attrs.quarter # NULL)
    /\ res.attrs.quarter # NULL => Val(res.attrs.quarter) \in 1 .. 4

\* The year is inside the window of validate_data.
InWindow(r) == MIN_YEAR <= r.year /\ r.year <= MAX_YEAR

\* C14: validate_data returns the records of its input whose year is at
\* least MIN_YEAR and at most MAX_YEAR, each as often as the input holds it
\* and in the order of the input, and no other record.
C14_YearWindow ==
  fn = "validate_data" => res.df = SelectSeq(arg.rows, InWindow)

\* A record of the year before MIN_YEAR was dropped and a record of the
\* year MAX_YEAR was kept.
C14_Witness ==
  /\ fn = "validate_data"
  /\ Len(arg.rows) = 2
  /\ arg.rows[1].year = MIN_YEAR - 1
  /\ arg.rows[2].year = MAX_YEAR
  /\ res.df = <<arg.rows[2]>>

\* The record has no value, or a value of "Temperature change" outside
\* the range from MIN_TEMP_CHANGE to MAX_TEMP_CHANGE.
NullOrExtreme(r) ==
  \/ r.value = NULL
  \/ /\ r.element_name = TempChange
     /\ Val(r.value) < MIN_TEMP_CHANGE \/ Val(r.value) > MAX_TEMP_CHANGE

\* C15: validate_data returns, for every input, a frame of records of the
\* input (it does not raise); the records inside the year window that have
\* no value or an extreme "Temperature change" value are all in it, as they
\* were and in their order; the extreme ones are counted in a warning and
\* the null ones in a log line.
C15_ValuesOnlyFlagged ==
  fn = "validate_data" =>
    /\ res.df \in Seq(Range(arg.rows))
    /\ SelectSeq(res.df, NullOrExtreme)
         = SelectSeq(arg.rows, LAMBDA r : InWindow(r) /\ NullOrExtreme(r))
    /\ res.log.extreme
         = Len(SelectSeq(arg.rows, LAMBDA r : /\ InWindow(r)
                                         /\ r.value # NULL
                                         /\ NullOrExtreme(r)))
    /\ res.log.nulls = Len(SelectSeq(arg.rows, LAMBDA r : r.value = NULL))

\* A record without value and a "Temperature change" record one degree
\* above MAX_TEMP_CHANGE, both of years inside the window, were handed to
\* validate_data and returned, the second one flagged.
C15_Witness ==
  /\ fn = "validate_data"
  /\ Len(arg.rows) = 2
  /\ InWindow(arg.rows[1]) /\ arg.rows[1].value = NULL
  /\ InWindow(arg.rows[2]) /\ arg.rows[2].value = Some(MAX_TEMP_CHANGE + 1)
  /\ arg.rows[2].element_name = TempChange
  /\ res.df = arg.rows
  /\ res.log.extreme = 1
  /\ res.log.nulls = 1

\* The positions of the year columns of a raw frame: the columns whose
\* label begins with "Y".
YearColumnsOf(frame) ==
  {k \in DOMAIN frame.columns : StartsWithY(frame.columns[k])}

\* The long record of row r and year column k: the identifier values of
\* the row, the number after the "Y" of the label, the cell of the row.
LongRecordOf(frame, r, k) ==
  [area_code |-> frame.rows[r].ids["Area Code"],
   m49_code |-> frame.rows[r].ids["Area Code (M49)"],
   area_name |-> frame.rows[r].ids["Area"],
   months_code |-> frame.rows[r].ids["Months Code"],
   period_name |-> frame.rows[r].ids["Months"],
   element_code |-> frame.rows[r].ids["Element Code"],
   element_name |-> frame.rows[r].ids["Element"],
   unit |-> frame.rows[r].ids["Unit"],
   year |-> ToInt(Tail(frame.columns[k])),
   value |-> frame.rows[r].cells[k]]

\* How often each record occurs in a sequence.
BagOfSeq(q) == [x \in Range(q) |-> Cardinality({k \in DOMAIN q : q[k] = x})]

\* How often each long record is asked for: once for every row and year
\* column it is the long record of.
LongRecordsOf(frame) ==
  LET pairs == (DOMAIN frame.rows) \X YearColumnsOf(frame)
  IN [x \in {LongRecordOf(frame, p[1], p[2]) : p \in pairs} |->
        Cardinality({p \in pairs : LongRecordOf(frame, p[1], p[2]) = x})]

\* unpivot_years has returned R*N long records, one for every row and year
\* column of its argument and no other.
UnpivotedAsClaimed ==
  /\ ~res.unpivoted.err
  /\ Len(res.unpivoted.rows)
       = Len(arg.frame.rows) * Cardinality(YearColumnsOf(arg.frame))
  /\ BagOfSeq(res.unpivoted.rows) = LongRecordsOf(arg.frame)

\* C16: for a raw frame of R rows and N year columns unpivot_years returns
\* exactly R*N long records: for every row and every year column one long
\* record with the eight identifier values of the row, the year of the
\* column label and the value of the cell, and no other long record.
C16_UnpivotShape == fn = "unpivot_years" => UnpivotedAsClaimed

\* The frame has a year column, and every year column is labelled "Y" and
\* decimal digits.
HasYearColumns(frame) ==
  /\ YearColumnsOf(frame) # {}
  /\ \A k \in YearColumnsOf(frame) : IsInt(Tail(frame.columns[k]))

\* What holds of C16: the frames with year columns are unpivoted as
\* claimed, and unpivot_years raises on the others that have rows or no
\* column beginning with "Y".
UnpivotShapeOfYearFrames ==
  fn = "unpivot_years" =>
    IF HasYearColumns(arg.frame) THEN UnpivotedAsClaimed
    ELSE (arg.frame.rows # <<>> \/ YearColumnsOf(arg.frame) = {})
           => res.unpivoted.err

\* Two rows with a column that is no year column and the year column Y2001
\* were unpivoted into two long records.
UnpivotedTwoByTwo ==
  /\ fn = "unpivot_years"
  /\ Len(arg.frame.rows) = 2
  /\ Len(res.unpivoted.rows) = 2
  /\ arg.frame.columns = <<<<"N", "o", "t", "e">>, <<"Y", "2", "0", "0", "1">>>>
  /\ res.unpivoted.rows[1].year = 2001

\* C17: classify_area returns, for every name, one of the four area types:
\* the type whose list holds the trimmed name, and "country" when no list
\* holds it.
C17_ClassifyAreaTotal ==
  fn = "classify_area" =>
    /\ res.type \in AreaTypes
    /\ \A k \in DOMAIN AREA_TYPE_MAPPING :
         (res.type = AREA_TYPE_MAPPING[k][1])
           <=> (Strip(arg.name) \in AREA_TYPE_MAPPING[k][2])
    /\ (res.type = "country")
         <=> (Strip(arg.name) \notin Configured(AREA_TYPE_MAPPING))

\* "Oceania" with a blank before and after it was classified as continent.
C17_Witness ==
  /\ fn = "classify_area"
  /\ arg.name = <<Sp, "Oceania", Sp>>
  /\ res.type = "continent"
  /\ classify_area(Txt("Atlantis")) = "country"

\* The warehouse a single run that completes on transformed data d leaves.
LoadedWarehouse(d) ==
  LET areas == update_area_hierarchy(InsertAreas(<<>>, AreaFrame(d), 1)).rows
      periods == InsertPeriods(<<>>, PeriodFrame(d), 1)
      metrics == InsertMetrics(<<>>, MetricFrame(d), 1)
  IN [staging |-> StagingRows(d), dim_area |-> areas,
      dim_time_period |-> periods, dim_metric |-> metrics,
      fact_temperature |-> FactJoin(StagingRows(d), areas, periods, metrics),
      seq |-> [area |-> Len(areas) + 1, period |-> Len(periods) + 1,
               metric |-> Len(metrics) + 1]]

\* The tables hold what warehouse w holds.
TablesAre(w) ==
  /\ staging = w.staging
  /\ dim_area = w.dim_area
  /\ dim_time_period = w.dim_time_period
  /\ dim_metric = w.dim_metric
  /\ fact_temperature = w.fact_temperature
  /\ seq = w.seq

\* Both runs have completed.
BothDone == \A p \in Procs : runs[p].pc = "done"

\* C18: two runs on the same input against the same warehouse are safe only
\* as long as they do not overlap: when both have completed one after the
\* other, the warehouse and the row counts both report are those of a
\* single run, so that a final state that differs from it (C18_Witness
\* shows one is reached) comes from steps of one run taken while the other
\* was under way.
C18_OnlyOverlapBreaks ==
  (BothDone /\ serial) =>
    /\ TablesAre(LoadedWarehouse(Transformed))
    /\ \A p \in Procs :
         runs[p].stats =
           Some(LoadStatistics(LoadedWarehouse(Transformed).staging,
                               LoadedWarehouse(Transformed).dim_area,
                               LoadedWarehouse(Transformed).dim_time_period,
                               LoadedWarehouse(Transformed).dim_metric,
                               LoadedWarehouse(Transformed).fact_temperature))

\* Both runs have completed with their steps interleaved, and the staging
\* table holds every record twice and the fact table twice the facts of a
\* single run, which both runs report: no single run leaves that.
C18_Witness ==
  /\ BothDone
  /\ ~serial
  /\ Len(raw) = 2
  /\ staging = StagingRows(Transformed) \o StagingRows(Transformed)
  /\ ~TablesAre(LoadedWarehouse(Transformed))
  /\ BagCardinality(fact_temperature)
       = 2 * BagCardinality(LoadedWarehouse(Transformed).fact_temperature)
  /\ BagCardinality(fact_temperature) > 0
  /\ \A p \in Procs : Val(runs[p].stats).Staging = 2 * Len(raw)

\* The positions in the log of the current run at which the step began.
Begun(step) == {k \in DOMAIN steps : steps[k] = step}

\* C19: analytics.refresh_all_views() is called at most once in a run; it
\* is called only after load_facts has returned, its INSERT committed, and
\* as the step right after it; the row counts are read only after it has
\* returned, as the step right after it; a run that completes has called it
\* exactly once, and a run that failed before load_facts returned has not
\* called it.
C19_RefreshOncePerRun ==
  /\ refresh_calls = Cardinality(Begun("REFRESH_AGGREGATES"))
  /\ refresh_calls \in {0, 1}
  /\ \A k \in Begun("REFRESH_AGGREGATES") :
       /\ k > 1
       /\ steps[k - 1] = "LOAD_FACTS"
       /\ fact_temperature
            = FactJoin(staging, dim_area, dim_time_period, dim_metric)
  /\ \A k \in Begun("REPORT_COUNTS") :
       k > 1 /\ steps[k - 1] = "REFRESH_AGGREGATES"
  /\ pc = "get_load_statistics" => refresh_calls = 1
  /\ stats # NULL => refresh_calls = 1
  /\ pc = "done" => refresh_calls = 1
  /\ (pc = "failed" /\ ~Completed("LOAD_FACTS")) => refresh_calls = 0

\* A run has completed with facts loaded and one call of the refresh.
C19_Witness ==
  /\ pc = "done"
  /\ exit_code = Some(0)
  /\ refresh_calls = 1
  /\ fact_temperature # EmptyBag
  /\ SubSeq(steps, Len(steps) - 2, Len(steps))
       = <<"LOAD_FACTS", "REFRESH_AGGREGATES", "REPORT_COUNTS">>

\* The names of the subregion list and of the continent list.
SubregionList == AREA_TYPE_MAPPING[3][2]
ContinentList == AREA_TYPE_MAPPING[2][2]

\* C20: get_parent_area returns none for the type world, "World" for the
\* type continent, none for the type country and the entry of
\* SUBREGION_TO_CONTINENT for the type subregion (none without entry);
\* every name of the subregion list has an entry, and every entry is a name
\* of the continent list.
C20_ParentByType ==
  fn = "get_parent_area" =>
    /\ arg.area_type = "world" => res.parent = NULL
    /\ arg.area_type = "continent" => res.parent = Some(Txt("World"))
    /\ arg.area_type = "country" => res.parent = NULL
    /\ arg.area_type = "subregion" =>
         /\ res.parent = SUBREGION_TO_CONTINENT(arg.name)
         /\ arg.name \in SubregionList => res.parent # NULL
         /\ res.parent # NULL => Val(res.parent) \in ContinentList

\* The parent of the subregion "Melanesia" was asked for and is "Oceania".
C20_Witness ==
  /\ fn = "get_parent_area"
  /\ arg.name = Txt("Melanesia")
  /\ arg.area_type = "subregion"
  /\ res.parent = Some(Txt("Oceania"))

\* No code that is not NULL stands at two places of the sequence.
Unique(codes) ==
  \A j, k \in DOMAIN codes : j # k => ~SqlEq(codes[j], codes[k])

\* No natural key is carried by two rows of its dimension table.
NaturalKeysUnique ==
  /\ Unique([k \in DOMAIN dim_area |-> dim_area[k].m49_code])
  /\ Unique([k \in DOMAIN dim_time_period |->
               dim_time_period[k].period_code])
  /\ Unique([k \in DOMAIN dim_metric |-> dim_metric[k].metric_code])

\* The fact rows the staged row n has: the combinations with it that match.
FactsOfStaged(n) == {c \in Combos : c[1] = n /\ Matches(c)}

\* C21: after a run that completed, no natural key is carried by two rows
\* of its dimension table, every staged row has at most one fact row, and
\* the fact table has no more rows than the staging table.
C21_AtMostOneFactPerStagedRow ==
  pc = "done" =>
    /\ NaturalKeysUnique
    /\ \A n \in DOMAIN staging : Cardinality(FactsOfStaged(n)) <= 1
    /\ BagCardinality(fact_temperature) <= Len(staging)

\* The three natural keys of the staged row are not NULL.
Keyed(s) ==
  s.m49_code # NULL /\ s.months_code # NULL /\ s.element_code # NULL

\* Every staged row with its three natural keys has a fact row with its
\* year and value, under the keys of dimension rows with its natural keys.
KeyedRowsJoin ==
  \A n \in DOMAIN staging :
     Keyed(staging[n]) =>
       \E c \in FactsOfStaged(n) :
          /\ BagIn(FactOf(c), fact_temperature)
          /\ FactOf(c).year = staging[n].year
          /\ FactOf(c).value = staging[n].value

\* C22 as claimed: after a run that completed, every staged row with three
\* natural keys has a fact row with its year and value, and when no natural
\* key is carried by two rows of its dimension the fact table has as many
\* rows as the staging table.
C22_NoJoinMiss ==
  pc = "done" =>
    /\ KeyedRowsJoin
    /\ NaturalKeysUnique =>
         BagCardinality(fact_temperature) = Len(staging)

\* C22 as amended: after a run that completed, every staged row with three
\* natural keys has a fact row with its year and value, and when no natural
\* key is carried by two rows of its dimension the fact table has as many
\* rows as the staging table has rows with three natural keys.
C22_KeyedRowsJoinOnce ==
  pc = "done" =>
    /\ KeyedRowsJoin
    /\ NaturalKeysUnique =>
         BagCardinality(fact_temperature)
           = Cardinality({n \in DOMAIN staging : Keyed(staging[n])})

\* A run has completed with unique natural keys, staged rows that joined
\* and a staged row without M49 code that did not.
C22_Witness ==
  /\ pc = "done"
  /\ NaturalKeysUnique
  /\ Len(staging) = 3
  /\ \E n \in DOMAIN staging : ~Keyed(staging[n])
  /\ BagCardinality(fact_temperature) = 2

\* The connection test of the current run has not succeeded.
Unconnected == ~Completed("CONNECT")

\* A run whose connection test failed: exit code 1, no row counts, the
\* test tried once and nothing begun after it.
C23_Inv ==
  /\ Cardinality(Begun("CONNECT")) <= 1
  /\ FailedIn("CONNECT") =>
       /\ exit_code = Some(1)
       /\ stats = NULL
       /\ steps = <<"EXTRACT", "TRANSFORM", "CONNECT">>

\* A step that leaves the run without a successful connection test changes
\* no table, and the connection test is followed by the truncation of the
\* staging table or by the end of the run, never by itself.
C23_Step ==
  /\ Unconnected' => UNCHANGED tables
  /\ pc = "test_connection" =>
       /\ pc' \in {"truncate_staging", "failed"}
       /\ UNCHANGED tables
  /\ FailedIn("CONNECT") => (steps' = <<>> /\ UNCHANGED tables)

\* C23: a run whose connection test fails ends with exit code 1 without
\* trying again, and staging, the three dimensions and the fact table are
\* as they were: no step changes a table before the connection test of the
\* run has succeeded.
C23_ConnectFailureChangesNothing == []C23_Inv /\ [][C23_Step]_vars

\* The connection test failed against a warehouse an earlier run has loaded.
C23_Witness ==
  /\ FailedIn("CONNECT")
  /\ exit_code = Some(1)
  /\ df # <<>>
  /\ staging # <<>>
  /\ fact_temperature # EmptyBag

====
